---- MODULE Spec2Model ----
(***************************************************************************)
(* A model of the ingestion-and-analysis cache pipeline of                 *)
(* dailyYoutubeSummary:                                                    *)
(*   - the Content Store's cache tables and VideoCacheService              *)
(*     (app/services/video_cache_service.py),                              *)
(*   - the Cache-Aware Analyzer                                            *)
(*     (SmartSubscriptionReporterV2.analyze_content_with_ai),              *)
(*   - the two Credential Rotators (SmartSubscriptionReporterV2 and        *)
(*     YouTubeService),                                                    *)
(*   - the Transcript Resolver (YouTubeService.get_video_transcript).      *)
(*                                                                         *)
(* Strings are drawn from a small universe 1..NumStrings of distinct       *)
(* non-empty strings; 0 stands for the empty string / None.  Time is a     *)
(* counter of days.  A store operation may fail (a SQLAlchemy exception):  *)
(* the point of failure is an input of the operation.                      *)
(***************************************************************************)
EXTENDS Integers, Sequences, FiniteSets, TLC

\* ------------------------------------------------------------- bounds
NumVideos == 1
NumStrings == 2
NumPayloads == 1
MaxOps == 3
MaxDays == 1
MaxKeys == 3
MaxRequests == 2
MaxTracks == 2
NumPipeVideos == 1
MaxRuns == 2
MaxAnalyses == 3
MaxLen == 3
NumProcs == 2
MaxItems == 5
MaxListed == 2
MaxIngests == 3

Videos == 1..NumVideos
Strings == 1..NumStrings
\* The objects an LLM answer can encode.
Payloads == 1..NumPayloads
\* The ages clean_old_cache is asked to evict at: everything older than
\* now, or than a day ago.
DaysOld == {0, 1}

VARIABLES
  videos,          \* table videos:         video_id -> row
  transcripts,     \* table transcripts:    video_id -> row
  video_analyses,  \* table video_analyses: video_id -> row (the rich analysis)
  analysis_cache,  \* table analysis_cache: video_id -> row (the cache index)
  ai_enabled,      \* SmartSubscriptionReporterV2.ai_enabled
  now,             \* datetime.utcnow(), in days
  nops,            \* number of operations called so far
  last,            \* the most recent operation, as its caller saw it
  api_keys,            \* len(self.api_keys): the pool is the keys 0..api_keys-1
  exhausted,           \* the keys whose quota the video platform has used up
  current_key_index,   \* SmartSubscriptionReporterV2.current_key_index
  ys_current_key_index,\* YouTubeService.current_key_index
  ys_youtube,          \* the key YouTubeService.youtube was built with
  burnt,               \* per rotator: the keys that answered it quotaExceeded
  nreqs,               \* number of logical requests made so far
  req,                 \* the most recent logical request, as it went
  tr_config,           \* the transcript tracks of the video being resolved
  tr_result,           \* what get_video_transcript returned for it
  channels,        \* table channels: the channel ids that have a row
  keywords,        \* table keywords: the keywords that have a row
  dc_videos,       \* table videos, as DataCollector fills it: the video ids
  dc_transcripts,  \* table transcripts, as DataCollector fills it
  analyses,        \* table analyses: rows <<video_id, keyword, result>>
  upstream,        \* what the video platform and the LLM service answer
  runs,            \* the pipeline runs made so far, as their caller saw them
  trend_in,        \* the arguments of generate_trend_analysis and the LLM's answer
  trend_out,       \* what generate_trend_analysis did with them
  llm_answer,      \* what the LLM service does when an analyzer calls it
  smart_out,       \* how the last analyze_content_with_ai call ended
  baseline_out,    \* how the analyze_transcript call ended
  race_pc,         \* per concurrent analyzer call: the step it is at
  race_local,      \* per concurrent analyzer call: what it holds in memory
  race_calls,      \* the LLM-service calls the concurrent calls have made
  tables,          \* DataCollector's tables, as lists of rows
  ing,             \* the most recent DataCollector call, as it went
  nings,           \* number of DataCollector calls made so far
  rt_result,       \* the JSON object the LLM answered, field by field
  rt_out           \* what the miss call and the hit call after it returned

cacheVars == <<videos, transcripts, video_analyses, analysis_cache,
               ai_enabled, now, nops, last>>
rotVars == <<api_keys, exhausted, current_key_index, ys_current_key_index,
             ys_youtube, burnt, nreqs, req>>
trVars == <<tr_config, tr_result>>
pipeVars == <<channels, keywords, dc_videos, dc_transcripts, analyses,
              upstream, runs>>
trendVars == <<trend_in, trend_out>>
llmVars == <<llm_answer, smart_out, baseline_out>>
raceVars == <<race_pc, race_local, race_calls>>
ingestVars == <<tables, ing, nings>>
roundVars == <<rt_result, rt_out>>
extVars == <<ingestVars, roundVars>>
appVars == <<pipeVars, trendVars, llmVars, raceVars, extVars>>
vars == <<cacheVars, rotVars, trVars, appVars>>

\* ------------------------------------------------------------- rows
NoVideo == [present |-> FALSE, title |-> 0]
NoTranscript == [present |-> FALSE, text |-> 0]
NoAnalysis == [present |-> FALSE, payload |-> 0]
NoCache == [present |-> FALSE, key |-> <<0, <<"md5", 0>> >>, last |-> 0, count |-> 0]

\* The session's view of the four tables.
DB == [videos |-> videos, transcripts |-> transcripts,
       video_analyses |-> video_analyses, analysis_cache |-> analysis_cache]

\* hashlib.md5(text).hexdigest()[:16]: taken to be collision-free on the
\* string universe, and never the text itself.
TranscriptHash(text) == <<"md5", text>>

\* f"{video_id}_{transcript_hash}"
GenerateCacheKey(video_id, transcript_text) ==
  <<video_id, TranscriptHash(transcript_text)>>

\* ------------------------------------------------- VideoCacheService
\* _save_transcript: overwrite the text of the video's row, or add the row.
SaveTranscript(db, video_id, transcript_text) ==
  IF db.transcripts[video_id].present
    THEN [db EXCEPT !.transcripts[video_id].text = transcript_text]
    ELSE [db EXCEPT !.transcripts[video_id] =
                      [present |-> TRUE, text |-> transcript_text]]

\* save_video_data: update the existing video row or add one, save the
\* transcript when one is given, commit.  On an exception: rollback, False.
SaveVideoData(db, video_id, title, transcript_text, fail) ==
  IF fail
    THEN [db |-> db, ret |-> FALSE]
    ELSE LET d1 == IF db.videos[video_id].present
                     THEN [db EXCEPT !.videos[video_id].title = title]
                     ELSE [db EXCEPT !.videos[video_id] =
                                       [present |-> TRUE, title |-> title]]
             d2 == IF transcript_text # 0
                     THEN SaveTranscript(d1, video_id, transcript_text)
                     ELSE d1
         IN  [db |-> d2, ret |-> TRUE]

\* _update_cache_info: nothing without a transcript row; else the key is
\* recomputed from the stored transcript and the index row is updated
\* (access_count += 1) or added (access_count defaults to 1), and committed.
UpdateCacheInfo(db, video_id, t) ==
  IF ~db.transcripts[video_id].present
    THEN db
    ELSE LET cache_key == GenerateCacheKey(video_id, db.transcripts[video_id].text)
             existing_cache == db.analysis_cache[video_id]
         IN  IF existing_cache.present
               THEN [db EXCEPT !.analysis_cache[video_id] =
                       [present |-> TRUE, key |-> cache_key, last |-> t,
                        count |-> existing_cache.count + 1]]
               ELSE [db EXCEPT !.analysis_cache[video_id] =
                       [present |-> TRUE, key |-> cache_key, last |-> t,
                        count |-> 1]]

\* save_analysis_result: update or add the rich-analysis row and commit; then
\* _update_cache_info with its own commit.  fail = "analysis": the exception
\* comes before the first commit (nothing is kept); fail = "cache": it comes
\* after it, in _update_cache_info (the analysis row stays, the rollback only
\* undoes the index row).
SaveAnalysisResult(db, video_id, payload, t, fail) ==
  IF fail = "analysis"
    THEN [db |-> db, ret |-> FALSE]
    ELSE LET d1 == [db EXCEPT !.video_analyses[video_id] =
                                [present |-> TRUE, payload |-> payload]]
         IN  IF fail = "cache"
               THEN [db |-> d1, ret |-> FALSE]
               ELSE [db |-> UpdateCacheInfo(d1, video_id, t), ret |-> TRUE]

\* _convert_db_to_analysis_format: the caller-visible result of a stored row.
ConvertDbToAnalysisFormat(analysis) == analysis.payload

\* A lookup that compares the stored cache key with nothing and finds nothing.
GetCachedAnalysisMiss(db, video_id, t, fail) ==
  [db |-> db, found |-> FALSE, result |-> 0]

\* A lookup that counts the access but keeps the old last_accessed.
GetCachedAnalysisNoTouch(db, video_id, t, fail) ==
  LET analysis == db.video_analyses[video_id]
      cache == db.analysis_cache[video_id]
  IN  IF fail \/ ~analysis.present
        THEN [db |-> db, found |-> FALSE, result |-> 0]
        ELSE [db |-> IF cache.present
                       THEN [db EXCEPT !.analysis_cache[video_id].count = @ + 1]
                       ELSE db,
              found |-> TRUE, result |-> analysis.payload]

\* get_cached_analysis: None without an analysis row; else the index row, if
\* any, gets last_accessed = utcnow and access_count += 1, and the row is
\* returned in the caller's format.  On an exception: None.
GetCachedAnalysis(db, video_id, t, fail) ==
  IF fail
    THEN [db |-> db, found |-> FALSE, result |-> 0]
    ELSE LET analysis == db.video_analyses[video_id]
             cache == db.analysis_cache[video_id]
         IN  IF ~analysis.present
               THEN [db |-> db, found |-> FALSE, result |-> 0]
               ELSE [db |-> IF cache.present
                              THEN [db EXCEPT !.analysis_cache[video_id] =
                                      [cache EXCEPT !.last = t,
                                                    !.count = cache.count + 1]]
                              ELSE db,
                     found |-> TRUE,
                     result |-> ConvertDbToAnalysisFormat(analysis)]

\* A clean_old_cache that also evicts the rows accessed exactly days_old
\* days ago.
CleanOldCacheInclusive(db, days_old, t, fail) ==
  LET cutoff_date == t - days_old
      old_caches == {v \in Videos : db.analysis_cache[v].present
                                     /\ db.analysis_cache[v].last <= cutoff_date}
  IN  IF fail
        THEN [db |-> db, ret |-> 0]
        ELSE [db |-> [db EXCEPT
                       !.video_analyses = [v \in Videos |->
                           IF v \in old_caches THEN NoAnalysis ELSE @[v]],
                       !.analysis_cache = [v \in Videos |->
                           IF v \in old_caches THEN NoCache ELSE @[v]]],
              ret |-> Cardinality(old_caches)]

\* clean_old_cache: the index rows with last_accessed < utcnow - days_old are
\* deleted together with the analysis row of the same video; returns how many
\* index rows.  On an exception: rollback, 0.
CleanOldCache(db, days_old, t, fail) ==
  LET cutoff_date == t - days_old
      old_caches == {v \in Videos : db.analysis_cache[v].present
                                     /\ db.analysis_cache[v].last < cutoff_date}
  IN  IF fail
        THEN [db |-> db, ret |-> 0]
        ELSE [db |-> [db EXCEPT
                       !.video_analyses = [v \in Videos |->
                           IF v \in old_caches THEN NoAnalysis ELSE @[v]],
                       !.analysis_cache = [v \in Videos |->
                           IF v \in old_caches THEN NoCache ELSE @[v]]],
              ret |-> Cardinality(old_caches)]

\* ------------------------------------------- the LLM service's answers
\* A response text is a sequence of tokens: "{" and "}" are braces, "t" is
\* any text that is not JSON, " " is white space.  The JSON object a
\* well-formed text encodes is named by the answer's payload (0: an object
\* whose fields have the wrong types, so that the field mapping raises).
\* The texts in use: white space only (empty once stripped), text without
\* JSON, an object with a brace missing, and an object inside other text.
Contents ==
  { <<" ">>, <<"t">>, <<"{", "{", "}">>, <<"t", "{", "}", "t">> }

\* str.strip()
RECURSIVE Strip(_)
Strip(c) ==
  IF c = <<>> THEN c
  ELSE IF Head(c) = " " THEN Strip(Tail(c))
  ELSE IF c[Len(c)] = " " THEN Strip(SubSeq(c, 1, Len(c) - 1))
  ELSE c

\* str.find(tok), 1-based; 0 when absent (Python's -1).
Find(c, tok) ==
  IF \E i \in 1..Len(c) : c[i] = tok
    THEN CHOOSE i \in 1..Len(c) : c[i] = tok /\ \A j \in 1..(i - 1) : c[j] # tok
    ELSE 0

\* str.rfind(tok) + 1: the 1-based place of the last tok; 0 when absent.
RFindEnd(c, tok) ==
  IF \E i \in 1..Len(c) : c[i] = tok
    THEN CHOOSE i \in 1..Len(c) : c[i] = tok /\ \A j \in (i + 1)..Len(c) : c[j] # tok
    ELSE 0

\* json.loads succeeds on c: one object, braces balanced, nothing but white
\* space around it and no non-JSON text inside it.
RECURSIVE ScanJson(_, _, _, _)
ScanJson(c, i, depth, opened) ==
  IF i > Len(c) THEN opened /\ depth = 0
  ELSE IF c[i] = " " THEN ScanJson(c, i + 1, depth, opened)
  ELSE IF c[i] = "{" THEN (~opened \/ depth > 0) /\ ScanJson(c, i + 1, depth + 1, TRUE)
  ELSE IF c[i] = "}" THEN depth > 0 /\ ScanJson(c, i + 1, depth - 1, opened)
  ELSE FALSE

JsonLoads(c) == ScanJson(c, 1, 0, FALSE)

\* Lines 264-281 of analyze_content_with_ai: strip; an empty text raises
\* ValueError; a text not starting with "{" is cut from its first "{" to its
\* last "}" (ValueError when there is no such span); then json.loads.
\* "ok": parsed; "decode": JSONDecodeError; "value": ValueError.
ParseResponse(text) ==
  LET content == Strip(text)
      start == Find(content, "{")
      end == RFindEnd(content, "}")
  IN  IF content = <<>> THEN "value"
      ELSE IF content[1] # "{"
        THEN IF start # 0 /\ end > start - 1
               THEN IF JsonLoads(SubSeq(content, start, end)) THEN "ok" ELSE "decode"
               ELSE "value"
        ELSE IF JsonLoads(content) THEN "ok" ELSE "decode"

\* ParseResponse tabulated on the texts in use (evaluated once).
Parsed == [c \in Contents \cup {<<>>} |-> ParseResponse(c)]

\* Every response text of up to MaxLen tokens, and ParseResponse tabulated
\* on them.
Tokens == {"{", "}", "t", " "}
Texts == UNION { [1..n -> Tokens] : n \in 0..MaxLen }
ParsedText == [c \in Texts |-> ParseResponse(c)]

ParseOf(c) == IF c \in Contents THEN Parsed[c] ELSE ParsedText[c]

\* What one call of chat.completions.create can do: raise, or answer a text.
\* The payload of a text that does not parse is immaterial (0).
LLMOutcomes ==
  { [raises |-> TRUE, content |-> <<>>, payload |-> 0] } \cup
  { [raises |-> FALSE, content |-> c,
     payload |-> IF Parsed[c] = "ok" THEN p ELSE 0] :
       c \in Contents, p \in {0} \cup Payloads }

\* --------------------------------------------- Cache-Aware Analyzer
\* An analyzer that also saves its degraded result (as payload 0).
AnalyzeContentWithAiSavingFallback(db, video_id, transcript, enabled, llm, t, fail) ==
  LET cached == GetCachedAnalysis(db, video_id, t, fail = "lookup")
      saved == SaveAnalysisResult(cached.db, video_id, llm.payload, t, fail)
  IN  IF cached.found
        THEN [db |-> cached.db, out |-> "hit", calls |-> 0, result |-> cached.result]
      ELSE IF ~enabled
        THEN [db |-> cached.db, out |-> "disabled", calls |-> 0, result |-> 0]
      ELSE IF llm.raises \/ ParseOf(llm.content) # "ok" \/ llm.payload = 0
        THEN [db |-> saved.db, out |-> "fallback", calls |-> 1, result |-> 0]
      ELSE [db |-> saved.db, out |-> IF saved.ret THEN "stored" ELSE "unsaved",
            calls |-> 1, result |-> llm.payload]

\* analyze_content_with_ai(title, transcript, channel_name, video_id).
\* Returns the store after the call, how the call ended
\*   "hit": the stored record is returned;  "disabled": ai_enabled is False;
\*   "fallback": one of the two degraded results is returned;
\*   "stored" / "unsaved": the parsed answer is returned, and
\*   save_analysis_result returned True / False (the analyzer ignores which),
\* the number of LLM-service calls made, and the result (0: a templated one).
\* The title and channel name only enter the prompt and the templated texts;
\* the transcript only enters the prompt.
AnalyzeContentWithAi(db, video_id, transcript, enabled, llm, t, fail) ==
  LET cached == GetCachedAnalysis(db, video_id, t, fail = "lookup")
      saved == SaveAnalysisResult(cached.db, video_id, llm.payload, t, fail)
  IN  IF cached.found
        THEN [db |-> cached.db, out |-> "hit", calls |-> 0, result |-> cached.result]
      ELSE IF ~enabled
        THEN [db |-> cached.db, out |-> "disabled", calls |-> 0, result |-> 0]
      ELSE IF llm.raises \/ ParseOf(llm.content) # "ok" \/ llm.payload = 0
        THEN [db |-> cached.db, out |-> "fallback", calls |-> 1, result |-> 0]
      ELSE [db |-> saved.db, out |-> IF saved.ret THEN "stored" ELSE "unsaved",
            calls |-> 1, result |-> llm.payload]

\* ------------------------------------------------- Credential Rotators
\* _execute_youtube_api_with_retry(self, api_call, max_retries=3)
max_retries == 3

\* What one upstream attempt answers: Ok, or an exception, which is the set
\* of the words its text holds that a rotator looks for.
Ok == {}
QuotaExceeded == {"403", "quota", "quotaExceeded"}
Forbidden == {"403"}
ServerError == {"500"}

\* The answers of the keys that have quota left, one per key.
Answers == [0..(api_keys - 1) -> {Ok, Forbidden, ServerError}]

\* The answer of the video platform to an attempt with a key.
Upstream(key, answers) ==
  IF key \in exhausted THEN QuotaExceeded ELSE answers[key]

\* _execute_youtube_api_with_retry, line 103
IsQuotaError(error) == "quota" \in error \/ "403" \in error

\* _rotate_api_key: False with one key or none; else the index moves to the
\* next key, modulo the length of the pool, and the client is rebuilt.
RotateApiKey(index) ==
  IF api_keys <= 1
    THEN [ret |-> FALSE, index |-> index]
    ELSE [ret |-> TRUE, index |-> (index + 1) % api_keys]

\* _execute_youtube_api_with_retry from its attempt-th round on, with the
\* keys tried so far.  Returns the index it leaves, the index it had when
\* it sent its last attempt, the keys it tried, in order, how it ended
\* ("ok": api_call's value is returned; "raised": last_error is raised) and
\* the last answer.
RECURSIVE ExecuteYoutubeApiWithRetry(_, _, _, _, _)
ExecuteYoutubeApiWithRetry(index, attempt, tried, last_error, answers) ==
  LET answer == Upstream(index, answers)
      rotated == RotateApiKey(index)
  IN  IF attempt >= max_retries
        THEN [index |-> index, before |-> tried[Len(tried)], tried |-> tried,
              result |-> "raised", error |-> last_error]
      ELSE IF answer = Ok
        THEN [index |-> index, before |-> index, tried |-> Append(tried, index),
              result |-> "ok", error |-> Ok]
      ELSE IF IsQuotaError(answer) /\ rotated.ret
        THEN ExecuteYoutubeApiWithRetry(rotated.index, attempt + 1,
                                        Append(tried, index), answer, answers)
      ELSE [index |-> index, before |-> index, tried |-> Append(tried, index),
            result |-> "raised", error |-> answer]

\* YouTubeService._switch_api_key: the index grows by one; the client is
\* rebuilt (_build_service) only when the index is still inside the pool.
SwitchApiKey(index, youtube) ==
  IF index + 1 < api_keys
    THEN [ret |-> TRUE, index |-> index + 1, youtube |-> index + 1]
    ELSE [ret |-> FALSE, index |-> index + 1, youtube |-> youtube]

\* YouTubeService._handle_quota_exceeded
HandleQuotaExceeded(error, index, youtube) ==
  IF "quotaExceeded" \in error
    THEN SwitchApiKey(index, youtube)
    ELSE [ret |-> FALSE, index |-> index, youtube |-> youtube]

\* YouTubeService.get_channel_details: one upstream attempt with the client
\* at hand; on an exception, the method calls itself again when
\* _handle_quota_exceeded says so, and else logs the error and returns None
\* ("empty").
RECURSIVE GetChannelDetails(_, _, _, _)
GetChannelDetails(index, youtube, tried, answers) ==
  LET answer == Upstream(youtube, answers)
      handled == HandleQuotaExceeded(answer, index, youtube)
  IN  IF answer = Ok
        THEN [index |-> index, before |-> index, youtube |-> youtube,
              tried |-> Append(tried, youtube), result |-> "ok", error |-> Ok]
      ELSE IF handled.ret
        THEN GetChannelDetails(handled.index, handled.youtube,
                               Append(tried, youtube), answers)
      ELSE [index |-> handled.index, before |-> index,
            youtube |-> handled.youtube,
            tried |-> Append(tried, youtube), result |-> "empty",
            error |-> answer]

NoRequest ==
  [rotator |-> "none", tried |-> <<>>, result |-> "none", error |-> Ok,
   index_before |-> 0, index_at_end |-> 0, all_exhausted |-> FALSE,
   reused |-> FALSE]

\* The record of a request that tried the keys of tried, in order.
\*   index_before   the rotator's index when the last attempt was sent
\*   index_at_end   the rotator's index when the request returned
\*   all_exhausted  every key of the pool was exhausted during the request
\*   reused         an attempt went to a key that had answered this rotator
\*                  quotaExceeded before, in this request or an earlier one
RequestRecord(rotator, r) ==
  [rotator |-> rotator, tried |-> r.tried, result |-> r.result,
   error |-> r.error, index_before |-> r.before,
   index_at_end |-> r.index,
   all_exhausted |-> exhausted = 0..(api_keys - 1),
   reused |-> \E i \in 1..Len(r.tried) :
                \/ r.tried[i] \in burnt[rotator]
                \/ \E j \in 1..(i - 1) :
                     r.tried[j] = r.tried[i] /\ r.tried[j] \in exhausted]

\* The keys that answered quotaExceeded in a request.
Burnt(tried) == { tried[i] : i \in 1..Len(tried) } \cap exhausted

\* No pool, no rotator, no request.
RotIdle ==
  /\ api_keys = 0
  /\ exhausted = {}
  /\ current_key_index = 0
  /\ ys_current_key_index = 0
  /\ ys_youtube = 0
  /\ burnt = [r \in {"v2", "ys"} |-> {}]
  /\ nreqs = 0
  /\ req = NoRequest

\* ------------------------------------------------- Transcript Resolver
\* The language codes of a video's tracks: those get_video_transcript looks
\* for by name, and one it does not.
Languages == {"ko", "en", "ja", "zh", "zh-cn", "zh-tw", "fr"}

\* A track, and what fetching it does: "text" gives a non-empty text,
\* "empty" gives no entries, "raise" raises (the XML does not parse).
Tracks == [language_code : Languages, is_generated : BOOLEAN,
           fetch : {"text", "empty", "raise"}]

\* The text of a track: every track has its own; <<>> (the empty string)
\* when it has no entries.
TextOf(track) ==
  IF track.fetch = "text"
    THEN <<track.language_code, track.is_generated>>
    ELSE <<>>

\* The listings of at most MaxTracks tracks, one at most per language and
\* kind, in the order the platform lists them.
TrackLists ==
  { l \in UNION { [1..n -> Tracks] : n \in 0..MaxTracks } :
      \A i, j \in 1..Len(l) :
        ( l[i].language_code = l[j].language_code
          /\ l[i].is_generated = l[j].is_generated ) => i = j }

\* What list_transcripts does: it returns the listing, raises
\* TranscriptsDisabled, or raises something else.
Configs ==
  { [listing |-> "ok", tracks |-> l] : l \in TrackLists } \cup
  { [listing |-> o, tracks |-> <<>>] : o \in {"disabled", "error"} }

\* for transcript in transcript_list: the manual tracks, then the generated.
Iterate(tracks) ==
  SelectSeq(tracks, LAMBDA t : ~t.is_generated) \o
  SelectSeq(tracks, LAMBDA t : t.is_generated)

NoTrack == [language_code |-> "", is_generated |-> FALSE, fetch |-> "none"]

\* find_generated_transcript / find_manually_created_transcript(lang_list):
\* the track of the kind in the first language of lang_list that has one;
\* NoTrack stands for NoTranscriptFound.
RECURSIVE FindTranscript(_, _, _)
FindTranscript(tracks, generated, lang_list) ==
  IF lang_list = <<>> THEN NoTrack
  ELSE IF \E i \in 1..Len(tracks) :
            tracks[i].language_code = Head(lang_list)
            /\ tracks[i].is_generated = generated
    THEN tracks[CHOOSE i \in 1..Len(tracks) :
                  tracks[i].language_code = Head(lang_list)
                  /\ tracks[i].is_generated = generated]
    ELSE FindTranscript(tracks, generated, Tail(lang_list))

\* language_priorities, lines 252-257
LanguagePriorities(language) ==
  << <<language>>, <<"en">>, <<"ja">>, <<"zh", "zh-cn", "zh-tw">> >>

NotFound ==
  [found_transcript |-> FALSE, transcript_text |-> <<>>,
   is_auto_generated |-> FALSE, final_language |-> ""]

\* The locals a fetched track leaves.
Fetched(track) ==
  [found_transcript |-> TRUE, transcript_text |-> TextOf(track),
   is_auto_generated |-> track.is_generated,
   final_language |-> track.language_code]

\* Stage 1 (generated = TRUE) and stage 2 (generated = FALSE): the first
\* track of the kind, in the order of the priorities, whose fetch does not
\* raise.
RECURSIVE SearchPriorities(_, _, _)
SearchPriorities(tracks, generated, priorities) ==
  IF priorities = <<>> THEN NotFound
  ELSE LET transcript == FindTranscript(tracks, generated, Head(priorities))
       IN  IF transcript = NoTrack \/ transcript.fetch = "raise"
             THEN SearchPriorities(tracks, generated, Tail(priorities))
             ELSE Fetched(transcript)

\* The first track of a kind in a sequence of tracks; NoTrack when none.
FirstOfKind(s, generated) ==
  IF \E i \in 1..Len(s) : s[i].is_generated = generated
    THEN s[CHOOSE i \in 1..Len(s) :
             /\ s[i].is_generated = generated
             /\ \A j \in 1..(i - 1) : s[j].is_generated # generated]
    ELSE NoTrack

\* A last resort that picks the first manual track before a generated one.
LastResortManualFirst(tracks) ==
  LET available == Iterate(tracks)
      manual_transcript == FirstOfKind(available, FALSE)
      auto_transcript == FirstOfKind(available, TRUE)
      chosen_transcript == IF manual_transcript # NoTrack THEN manual_transcript
                           ELSE auto_transcript
  IN  IF available = <<>> \/ chosen_transcript.fetch = "raise"
        THEN [returned |-> TRUE, locals |-> NotFound]
        ELSE [returned |-> FALSE, locals |-> Fetched(chosen_transcript)]

\* Stages 3 and 4: the first generated track, or else the first manual one;
\* when the fetch of the generated one raises and there is a manual one,
\* that one is fetched, once.  "returned" says that the method returns None
\* from inside the stage.
LastResort(tracks) ==
  LET available == Iterate(tracks)
      auto_transcript == FirstOfKind(available, TRUE)
      manual_transcript == FirstOfKind(available, FALSE)
      chosen_transcript == IF auto_transcript # NoTrack THEN auto_transcript
                           ELSE manual_transcript
  IN  IF available = <<>>
        THEN [returned |-> TRUE, locals |-> NotFound]
      ELSE IF chosen_transcript.fetch # "raise"
        THEN [returned |-> FALSE, locals |-> Fetched(chosen_transcript)]
      ELSE IF auto_transcript # NoTrack /\ manual_transcript # NoTrack
              /\ manual_transcript.fetch # "raise"
        THEN [returned |-> FALSE, locals |-> Fetched(manual_transcript)]
      ELSE [returned |-> TRUE, locals |-> NotFound]

None == [none |-> TRUE]

\* The body of get_video_transcript's outer try (lines 242-370): what it
\* returns (None, or the dictionary of transcript_text, is_auto_generated and
\* language), or the exception that list_transcripts raises out of it.
TryGetVideoTranscript(config, language) ==
  LET priorities == LanguagePriorities(language)
      stage1 == SearchPriorities(config.tracks, TRUE, priorities)
      stage2 == SearchPriorities(config.tracks, FALSE, priorities)
      stage4 == LastResort(config.tracks)
      locals == IF stage1.found_transcript THEN stage1
                ELSE IF stage2.found_transcript THEN stage2
                ELSE stage4.locals
  IN  IF config.listing = "disabled"
        THEN [raised |-> "TranscriptsDisabled", value |-> None]
      ELSE IF config.listing = "error"
        THEN [raised |-> "Exception", value |-> None]
      ELSE IF ~stage1.found_transcript /\ ~stage2.found_transcript
              /\ stage4.returned
        THEN [raised |-> "", value |-> None]
      ELSE IF locals.found_transcript /\ locals.transcript_text # <<>>
        THEN [raised |-> "",
              value |-> [none |-> FALSE,
                         transcript_text |-> locals.transcript_text,
                         is_auto_generated |-> locals.is_auto_generated,
                         language |-> locals.final_language]]
      ELSE [raised |-> "", value |-> None]

\* A resolver without the handlers of lines 372-381.
GetVideoTranscriptUnguarded(config, language) ==
  TryGetVideoTranscript(config, language)

\* get_video_transcript(video_id, language): the outer try, with
\* TranscriptsDisabled and every other exception answered with None
\* (lines 372-381).
GetVideoTranscript(config, language) ==
  LET body == TryGetVideoTranscript(config, language)
  IN  IF body.raised \in {"TranscriptsDisabled", "Exception"}
        THEN [raised |-> "", value |-> None]
        ELSE body

\* No video is being resolved.
TrIdle ==
  /\ tr_config = [listing |-> "none", tracks |-> <<>>, language |-> ""]
  /\ tr_result = [called |-> FALSE, raised |-> "", value |-> None]

\* ------------------------------------------------ the services at rest
\* DataCollector's tables are empty and no pipeline run has been made.
PipeIdle ==
  /\ channels = {}
  /\ keywords = {}
  /\ dc_videos = {}
  /\ dc_transcripts = {}
  /\ analyses = {}
  /\ upstream = None
  /\ runs = <<>>

\* generate_trend_analysis has not been called.
TrendIdle ==
  /\ trend_in = None
  /\ trend_out = None

\* No analyzer has been called.
LlmIdle ==
  /\ llm_answer = None
  /\ smart_out = None
  /\ baseline_out = None

\* No two analyzer calls are under way.
RaceIdle ==
  /\ race_pc = None
  /\ race_local = None
  /\ race_calls = 0

\* No DataCollector operation has been called on its own.
IngestIdle ==
  /\ tables = None
  /\ ing = None
  /\ nings = 0

\* No analysis has been stored and read back field by field.
RoundIdle ==
  /\ rt_result = None
  /\ rt_out = None

ExtIdle == IngestIdle /\ RoundIdle

AppIdle == PipeIdle /\ TrendIdle /\ LlmIdle /\ RaceIdle /\ ExtIdle

\* ------------------------------------------------ the cache's operations
\* What the caller saw of the most recent operation.
\*   out     how an analyzer call ended (see AnalyzeContentWithAi); "hit" or
\*           "none" for get_cached_analysis; "ok" or "failed" for the others
\*   calls   the LLM-service calls it made
\*   lookup  "hit", "miss" or "failed": what get_cached_analysis did in it
\*   after   the out of the operation just before it, when both are analyzer
\*           calls for the same video; "none" otherwise
\*   changed both are analyzer calls for the same video, and their
\*           transcript texts differ
OpRecord(op, vid, text, out, calls, lookup) ==
  [op |-> op, vid |-> vid, text |-> text, out |-> out, calls |-> calls,
   lookup |-> lookup,
   after |-> IF op = "analyze_content_with_ai" /\ last.op = op /\ last.vid = vid
               THEN last.out ELSE "none",
   changed |-> op = "analyze_content_with_ai" /\ last.op = op /\ last.vid = vid
               /\ last.text # text]

NoOp == [op |-> "none", vid |-> 0, text |-> 0, out |-> "none", calls |-> 0,
         lookup |-> "none", after |-> "none", changed |-> FALSE]

Commit(db) ==
  /\ videos' = db.videos
  /\ transcripts' = db.transcripts
  /\ video_analyses' = db.video_analyses
  /\ analysis_cache' = db.analysis_cache

Record(rec) ==
  /\ nops' = nops + 1
  /\ last' = rec

\* The store's tables are empty and nothing has been called.
CacheIdle ==
  /\ videos = [v \in Videos |-> NoVideo]
  /\ transcripts = [v \in Videos |-> NoTranscript]
  /\ video_analyses = [v \in Videos |-> NoAnalysis]
  /\ analysis_cache = [v \in Videos |-> NoCache]
  /\ ai_enabled = FALSE
  /\ now = 0
  /\ nops = 0
  /\ last = NoOp

InitCache ==
  /\ RotIdle /\ TrIdle /\ AppIdle
  /\ videos = [v \in Videos |-> NoVideo]
  /\ transcripts = [v \in Videos |-> NoTranscript]
  /\ video_analyses = [v \in Videos |-> NoAnalysis]
  /\ analysis_cache = [v \in Videos |-> NoCache]
  /\ ai_enabled \in BOOLEAN
  /\ now = 0
  /\ nops = 0
  /\ last = NoOp

\* check_and_analyze_updates, line 391: save_video_data(video_info, transcript)
SaveVideoDataOp(titles) ==
  /\ nops < MaxOps
  /\ \E v \in Videos, title \in titles, text \in {0} \cup Strings, fail \in BOOLEAN :
       LET r == SaveVideoData(DB, v, title, text, fail)
       IN  /\ Commit(r.db)
           /\ Record(OpRecord("save_video_data", v, 0,
                              IF r.ret THEN "ok" ELSE "failed", 0, "none"))
  /\ UNCHANGED <<ai_enabled, now, rotVars, trVars, appVars>>

SaveAnalysisResultOp ==
  /\ nops < MaxOps
  /\ \E v \in Videos, p \in Payloads, fail \in {"none", "analysis", "cache"} :
       LET r == SaveAnalysisResult(DB, v, p, now, fail)
       IN  /\ Commit(r.db)
           /\ Record(OpRecord("save_analysis_result", v, 0,
                              IF r.ret THEN "ok" ELSE "failed", 0, "none"))
  /\ UNCHANGED <<ai_enabled, now, rotVars, trVars, appVars>>

GetCachedAnalysisOp ==
  /\ nops < MaxOps
  /\ \E v \in Videos, fail \in BOOLEAN :
       LET r == GetCachedAnalysis(DB, v, now, fail)
       IN  /\ Commit(r.db)
           /\ Record(OpRecord("get_cached_analysis", v, 0,
                              IF r.found THEN "hit" ELSE "none", 0,
                              IF fail THEN "failed"
                              ELSE IF r.found THEN "hit" ELSE "miss"))
  /\ UNCHANGED <<ai_enabled, now, rotVars, trVars, appVars>>

\* run_detailed_analysis, line 752: clean_old_cache(30)
CleanOldCacheOp ==
  /\ nops < MaxOps
  /\ \E days_old \in DaysOld, fail \in BOOLEAN :
       LET r == CleanOldCache(DB, days_old, now, fail)
       IN  /\ Commit(r.db)
           /\ Record(OpRecord("clean_old_cache", 0, 0,
                              IF fail THEN "failed" ELSE "ok", 0, "none")
                       @@ [days_old |-> days_old, ret |-> r.ret])
  /\ UNCHANGED <<ai_enabled, now, rotVars, trVars, appVars>>

\* Where a store failure can strike an analyzer call: in the lookup, or, when
\* the answer is one the analyzer saves, in either commit of the save.
FailPoints(llm) ==
  IF ~llm.raises /\ ParseOf(llm.content) = "ok" /\ llm.payload # 0
    THEN {"none", "lookup", "analysis", "cache"}
    ELSE {"none", "lookup"}

\* check_and_analyze_updates, line 400, and the bot's analyze_video_with_ai:
\* one call of the analyzer, with any transcript text and any LLM answer.
AnalyzeOp ==
  /\ nops < MaxOps
  /\ \E v \in Videos, text \in {0} \cup Strings, llm \in LLMOutcomes :
     \E fail \in FailPoints(llm) :
       LET r == AnalyzeContentWithAi(DB, v, text, ai_enabled, llm, now, fail)
       IN  /\ Commit(r.db)
           /\ Record(OpRecord("analyze_content_with_ai", v, text, r.out, r.calls,
                              IF fail = "lookup" THEN "failed"
                              ELSE IF r.out = "hit" THEN "hit" ELSE "miss"))
  /\ UNCHANGED <<ai_enabled, now, rotVars, trVars, appVars>>

\* A day passes.
Tick ==
  /\ now < MaxDays
  /\ now' = now + 1
  /\ UNCHANGED <<videos, transcripts, video_analyses, analysis_cache,
                 ai_enabled, nops, last, rotVars, trVars, appVars>>

\* The store under its four operations and the passing of time.
NextCache ==
  \/ SaveVideoDataOp(Strings)
  \/ SaveAnalysisResultOp
  \/ GetCachedAnalysisOp
  \/ CleanOldCacheOp
  \/ Tick

SpecCache == InitCache /\ [][NextCache]_vars

\* The analyzer over a store that save_video_data fills.
NextAnalyzer ==
  \/ SaveVideoDataOp({1})
  \/ AnalyzeOp
  \/ Tick

SpecAnalyzer == InitCache /\ [][NextAnalyzer]_vars

\* --------------------------------------------- the rotators' requests
\* Both rotators are built over the same pool (YOUTUBE_API_KEYS), each with
\* its index at 0 and its client built with key 0; the platform may have
\* used up the quota of any of the keys.
InitRot ==
  /\ CacheIdle /\ TrIdle /\ AppIdle
  /\ api_keys \in 1..MaxKeys
  /\ exhausted \in SUBSET (0..(api_keys - 1))
  /\ current_key_index = 0
  /\ ys_current_key_index = 0
  /\ ys_youtube = 0
  /\ burnt = [r \in {"v2", "ys"} |-> {}]
  /\ nreqs = 0
  /\ req = NoRequest

\* The quota of one more key runs out.
ExhaustKey ==
  /\ \E key \in (0..(api_keys - 1)) \ exhausted :
       exhausted' = exhausted \cup {key}
  /\ UNCHANGED <<cacheVars, trVars, appVars, api_keys, current_key_index,
                 ys_current_key_index, ys_youtube, burnt, nreqs, req>>

\* check_and_analyze_updates, line 357: one search through
\* _execute_youtube_api_with_retry.
ExecuteYoutubeApiWithRetryOp ==
  /\ nreqs < MaxRequests
  /\ \E answers \in Answers :
       LET r == ExecuteYoutubeApiWithRetry(current_key_index, 0, <<>>, Ok, answers)
       IN  /\ current_key_index' = r.index
           /\ burnt' = [burnt EXCEPT !["v2"] = @ \cup Burnt(r.tried)]
           /\ req' = RequestRecord("v2", r)
  /\ nreqs' = nreqs + 1
  /\ UNCHANGED <<cacheVars, trVars, appVars, api_keys, exhausted,
                 ys_current_key_index, ys_youtube>>

\* One call of YouTubeService.get_channel_details.
GetChannelDetailsOp ==
  /\ nreqs < MaxRequests
  /\ \E answers \in Answers :
       LET r == GetChannelDetails(ys_current_key_index, ys_youtube, <<>>, answers)
       IN  /\ ys_current_key_index' = r.index
           /\ ys_youtube' = r.youtube
           /\ burnt' = [burnt EXCEPT !["ys"] = @ \cup Burnt(r.tried)]
           /\ req' = RequestRecord("ys", r)
  /\ nreqs' = nreqs + 1
  /\ UNCHANGED <<cacheVars, trVars, appVars, api_keys, exhausted, current_key_index>>

NextRot ==
  \/ ExhaustKey
  \/ ExecuteYoutubeApiWithRetryOp
  \/ GetChannelDetailsOp

SpecRot == InitRot /\ [][NextRot]_vars

\* ------------------------------------------- the resolver's one call
\* A video with any listing of tracks, asked for in Korean (the default) or
\* in English.
InitTr ==
  /\ CacheIdle /\ RotIdle /\ AppIdle
  /\ \E config \in Configs, language \in {"ko", "en"} :
       tr_config = [listing |-> config.listing, tracks |-> config.tracks,
                    language |-> language]
  /\ tr_result = [called |-> FALSE, raised |-> "", value |-> None]

GetVideoTranscriptOp ==
  /\ ~tr_result.called
  /\ LET r == GetVideoTranscript(tr_config, tr_config.language)
     IN  tr_result' = [called |-> TRUE, raised |-> r.raised, value |-> r.value]
  /\ UNCHANGED <<cacheVars, rotVars, appVars, tr_config>>

NextTr == GetVideoTranscriptOp

SpecTr == InitTr /\ [][NextTr]_vars

\* ------------------------------------------------- Ingestion Pipeline
\* The videos the platform knows, and their channels: channel c is the one
\* that published video c.
PipeVideos == 1..NumPipeVideos
PipeChannels == PipeVideos
Owner(video_id) == video_id

\* The keywords a run is given (the first of TaskScheduler.default_keywords).
KeywordList == <<"invest", "stock">>
KeywordSet == {KeywordList[i] : i \in 1..Len(KeywordList)}

\* What analyze_transcript hands back: the parsed object with every field
\* ("ok"), its own fallback object after a failure ("fallback"), or a parsed
\* object that lacks one of the fields analyze_videos reads ("partial").
LlmAnswers == {"ok", "fallback", "partial"}

\* The answers of the platform and of the LLM service, the same every time
\* they are asked: get_channel_details (data, or None), get_channel_videos,
\* search_videos_by_keyword, get_video_transcript (data, or None) and
\* analyze_transcript; the LLM service is given as answering "ok" for a video
\* that has no transcript, which the pipeline never asks it about.
Upstreams ==
  { up \in [details : [PipeChannels -> BOOLEAN],
            listed : [PipeVideos -> BOOLEAN],
            search : [KeywordSet -> SUBSET PipeVideos],
            transcript : [PipeVideos -> BOOLEAN],
            llm : [PipeVideos -> LlmAnswers]] :
      \A v \in PipeVideos : ~up.transcript[v] => up.llm[v] = "ok" }

\* The commit that the database refuses, if any (it raises a subclass of
\* SQLAlchemyError, here OperationalError).
Commits == {"add_keywords", "add_channel", "collect_videos",
            "collect_video_transcripts", "analyze_videos"}

RECURSIVE Ascending(_)
Ascending(S) ==
  IF S = {} THEN <<>>
  ELSE LET m == CHOOSE x \in S : \A y \in S : x <= y
       IN  <<m>> \o Ascending(S \ {m})

\* The session's view of DataCollector's tables.
PDB == [channels |-> channels, keywords |-> keywords, videos |-> dc_videos,
        transcripts |-> dc_transcripts, analyses |-> analyses]

NoRows == [channels |-> {}, keywords |-> {}, videos |-> {},
           transcripts |-> {}, analyses |-> {}]

\* SessionLocal(): autoflush is off, so a query sees the committed rows (db)
\* and not the added ones (pending) until a commit.
Session(db) == [db |-> db, pending |-> NoRows]

DbCommit(s) ==
  [db |-> [channels |-> s.db.channels \cup s.pending.channels,
           keywords |-> s.db.keywords \cup s.pending.keywords,
           videos |-> s.db.videos \cup s.pending.videos,
           transcripts |-> s.db.transcripts \cup s.pending.transcripts,
           analyses |-> s.db.analyses \cup s.pending.analyses],
   pending |-> NoRows]

\* add_channel: the existing row, or None when the platform has no details,
\* or a new row, committed at once.
AddChannelNewIsNone(s, channel_id, up, fail) ==
  IF channel_id \in s.db.channels
    THEN [s |-> s, channel |-> TRUE, raised |-> ""]
  ELSE IF ~up.details[channel_id]
    THEN [s |-> s, channel |-> FALSE, raised |-> ""]
  ELSE IF fail = "add_channel"
    THEN [s |-> s, channel |-> FALSE, raised |-> "OperationalError"]
  ELSE [s |-> DbCommit([s EXCEPT !.pending.channels = @ \cup {channel_id}]),
        channel |-> FALSE, raised |-> ""]

AddChannel(s, channel_id, up, fail) ==
  IF channel_id \in s.db.channels
    THEN [s |-> s, channel |-> TRUE, raised |-> ""]
  ELSE IF ~up.details[channel_id]
    THEN [s |-> s, channel |-> FALSE, raised |-> ""]
  ELSE IF fail = "add_channel"
    THEN [s |-> s, channel |-> FALSE, raised |-> "OperationalError"]
  ELSE [s |-> DbCommit([s EXCEPT !.pending.channels = @ \cup {channel_id}]),
        channel |-> TRUE, raised |-> ""]

\* add_keywords: a row for each keyword that has none, then one commit.
AddKeywords(s, kws, fail) ==
  LET new == {kws[i] : i \in 1..Len(kws)} \ s.db.keywords
  IN  IF fail = "add_keywords"
        THEN [s |-> s, raised |-> "OperationalError"]
        ELSE [s |-> DbCommit([s EXCEPT !.pending.keywords = @ \cup new]),
              raised |-> ""]

\* collect_channel_videos: the listed videos that have no row yet are added,
\* then one commit; the added videos are returned.
CollectChannelVideos(s, channel_id, up, fail) ==
  LET videos_data == {v \in PipeVideos : Owner(v) = channel_id /\ up.listed[v]}
      new == {v \in videos_data : v \notin s.db.videos}
  IN  IF fail = "collect_videos"
        THEN [s |-> s, collected |-> {}, raised |-> "OperationalError"]
        ELSE [s |-> DbCommit([s EXCEPT !.pending.videos = @ \cup new]),
              collected |-> new, raised |-> ""]

\* The loop of collect_keyword_videos: a found video that has no row gets
\* its channel added when that has no row (whatever add_channel returns),
\* and is added itself.
RECURSIVE KeywordVideos(_, _, _, _, _)
KeywordVideos(s, videos_data, collected, up, fail) ==
  IF videos_data = <<>>
    THEN [s |-> s, collected |-> collected, raised |-> ""]
  ELSE LET v == Head(videos_data)
       IN  IF v \in s.db.videos
             THEN KeywordVideos(s, Tail(videos_data), collected, up, fail)
           ELSE LET a == IF Owner(v) \in s.db.channels
                           THEN [s |-> s, channel |-> TRUE, raised |-> ""]
                           ELSE AddChannel(s, Owner(v), up, fail)
                IN  IF a.raised # ""
                      THEN [s |-> a.s, collected |-> collected,
                            raised |-> a.raised]
                      ELSE KeywordVideos(
                             [a.s EXCEPT !.pending.videos = @ \cup {v}],
                             Tail(videos_data), collected \cup {v}, up, fail)

\* collect_keyword_videos: the loop, then one commit.
CollectKeywordVideos(s, keyword, up, fail) ==
  LET r == KeywordVideos(s, Ascending(up.search[keyword]), {}, up, fail)
  IN  IF r.raised # ""
        THEN [s |-> r.s, collected |-> {}, raised |-> r.raised]
      ELSE IF fail = "collect_videos"
        THEN [s |-> r.s, collected |-> {}, raised |-> "OperationalError"]
        ELSE [s |-> DbCommit(r.s), collected |-> r.collected, raised |-> ""]

\* collect_video_transcripts: each given video without a transcript row is
\* asked for; what is found is added, then one commit.
CollectVideoTranscripts(s, vids, up, fail) ==
  LET new == {v \in vids : v \notin s.db.transcripts /\ up.transcript[v]}
  IN  IF fail = "collect_video_transcripts"
        THEN [s |-> s, collected |-> {}, raised |-> "OperationalError"]
        ELSE [s |-> DbCommit([s EXCEPT !.pending.transcripts = @ \cup new]),
              collected |-> new, raised |-> ""]

HasAnalysis(db, video_id) == \E a \in db.analyses : a[1] = video_id

\* The loop of analyze_videos: a video with an Analysis row is skipped; the
\* others are analysed from the transcript, or from title and description
\* (never blank: the text starts with a fixed label), and get one row for
\* each keyword that has a Keyword row. Reading a field the answer lacks
\* raises KeyError.
RECURSIVE AnalyzeLoop(_, _, _, _, _)
AnalyzeLoop(s, todo, kws, up, n) ==
  IF todo = <<>> THEN [s |-> s, n |-> n, raised |-> ""]
  ELSE LET v == Head(todo)
           known == {kws[i] : i \in 1..Len(kws)} \cap s.db.keywords
           rows == {<<v, k, up.llm[v]>> : k \in known}
       IN  IF HasAnalysis(s.db, v)
             THEN AnalyzeLoop(s, Tail(todo), kws, up, n)
           ELSE IF up.llm[v] = "partial" /\ known # {}
             THEN [s |-> s, n |-> n, raised |-> "KeyError"]
           ELSE AnalyzeLoop([s EXCEPT !.pending.analyses = @ \cup rows],
                            Tail(todo), kws, up, n + Cardinality(rows))

\* analyze_videos: the loop, then one commit; n is len(analyses).
AnalyzeVideos(s, vids, kws, up, fail) ==
  LET r == AnalyzeLoop(s, Ascending(vids), kws, up, 0)
  IN  IF r.raised # ""
        THEN [s |-> r.s, n |-> 0, raised |-> r.raised]
      ELSE IF fail = "analyze_videos"
        THEN [s |-> r.s, n |-> 0, raised |-> "OperationalError"]
        ELSE [s |-> DbCommit(r.s), n |-> r.n, raised |-> ""]

\* The loop over channel_ids: add_channel and, when it returned a row,
\* collect_channel_videos.
RECURSIVE ChannelLoop(_, _, _, _, _)
ChannelLoop(s, channel_ids, collected, up, fail) ==
  IF channel_ids = <<>>
    THEN [s |-> s, collected |-> collected, raised |-> ""]
  ELSE LET a == AddChannel(s, Head(channel_ids), up, fail)
           c == CollectChannelVideos(a.s, Head(channel_ids), up, fail)
       IN  IF a.raised # ""
             THEN [s |-> a.s, collected |-> collected, raised |-> a.raised]
           ELSE IF ~a.channel
             THEN ChannelLoop(a.s, Tail(channel_ids), collected, up, fail)
           ELSE IF c.raised # ""
             THEN [s |-> c.s, collected |-> collected, raised |-> c.raised]
           ELSE ChannelLoop(c.s, Tail(channel_ids),
                            collected \cup c.collected, up, fail)

\* The loop over keywords: collect_keyword_videos.
RECURSIVE KeywordLoop(_, _, _, _, _)
KeywordLoop(s, kws, collected, up, fail) ==
  IF kws = <<>> THEN [s |-> s, collected |-> collected, raised |-> ""]
  ELSE LET c == CollectKeywordVideos(s, Head(kws), up, fail)
       IN  IF c.raised # ""
             THEN [s |-> c.s, collected |-> collected, raised |-> c.raised]
             ELSE KeywordLoop(c.s, Tail(kws), collected \cup c.collected,
                              up, fail)

NoSummary == [total_videos_collected |-> 0, transcripts_collected |-> 0,
              analyses_performed |-> 0]

\* What a caller of run_daily_collection gets: the exception, or the
\* summary; db is what the database holds once the session is closed.
Aborted(s, error) ==
  [db |-> s.db, raised |-> error, unique_videos |-> {}, summary |-> NoSummary]

\* run_daily_collection, statement by statement; each operator below is the
\* function from one of its statements on, given what the statements before
\* it left (an exception raised by one of them ends the run).
\* The dict returned (or the exception of analyze_videos).
Result(unique_videos, t, a) ==
  IF a.raised # "" THEN Aborted(a.s, a.raised)
  ELSE [db |-> a.s.db, raised |-> "", unique_videos |-> unique_videos,
        summary |->
          [total_videos_collected |-> Cardinality(unique_videos),
           transcripts_collected |-> Cardinality(t.collected),
           analyses_performed |-> a.n]]

\* videos_with_transcripts and analyze_videos, then the dict.
AnalysisStage(unique_videos, t, kws, up, fail) ==
  IF t.raised # "" THEN Aborted(t.s, t.raised)
  ELSE Result(unique_videos, t,
              AnalyzeVideos(t.s,
                            {v \in unique_videos : v \in t.s.db.transcripts},
                            kws, up, fail))

\* unique_videos and collect_video_transcripts, then the rest.
TranscriptStage(w, kws, up, fail) ==
  IF w.raised # "" THEN Aborted(w.s, w.raised)
  ELSE AnalysisStage(w.collected,
                     CollectVideoTranscripts(w.s, w.collected, up, fail),
                     kws, up, fail)

\* The loop over keywords, then the rest.
KeywordStage(c, kws, up, fail) ==
  IF c.raised # "" THEN Aborted(c.s, c.raised)
  ELSE TranscriptStage(KeywordLoop(c.s, kws, c.collected, up, fail),
                       kws, up, fail)

\* The loop over channel_ids, then the rest.
ChannelStage(k, channel_ids, kws, up, fail) ==
  IF k.raised # "" THEN Aborted(k.s, k.raised)
  ELSE KeywordStage(ChannelLoop(k.s, channel_ids, {}, up, fail),
                    kws, up, fail)

\* run_daily_collection
RunDailyCollection(db, channel_ids, kws, up, fail) ==
  ChannelStage(AddKeywords(Session(db), kws, fail), channel_ids, kws, up, fail)

\* ------------------------------------------------- the pipeline's runs
\* Empty tables; the upstream answers are any, and stay as they are; a run
\* is asked for every channel, or for none (and then no channel listing is
\* asked for: the listings are given as empty).
InitPipe ==
  /\ CacheIdle /\ RotIdle /\ TrIdle /\ ExtIdle /\ TrendIdle /\ LlmIdle /\ RaceIdle
  /\ channels = {}
  /\ keywords = {}
  /\ dc_videos = {}
  /\ dc_transcripts = {}
  /\ analyses = {}
  /\ \E up \in Upstreams, all \in BOOLEAN :
       /\ all \/ \A v \in PipeVideos : ~up.listed[v]
       /\ upstream = [details |-> up.details, listed |-> up.listed,
                      search |-> up.search, transcript |-> up.transcript,
                      llm |-> up.llm,
                      channel_ids |-> IF all THEN Ascending(PipeChannels)
                                             ELSE <<>>]
  /\ runs = <<>>

RowCounts(db) ==
  [videos |-> Cardinality(db.videos),
   transcripts |-> Cardinality(db.transcripts),
   analyses |-> Cardinality(db.analyses)]

\* One run of run_daily_collection, as run_manual_collection makes it: a
\* fresh session, closed at the end whatever happened.
RunDailyCollectionOp ==
  /\ Len(runs) < MaxRuns
  /\ \E fail \in {"none"} \cup Commits :
       LET r == RunDailyCollection(PDB, upstream.channel_ids, KeywordList,
                                   upstream, fail)
       IN  /\ channels' = r.db.channels
           /\ keywords' = r.db.keywords
           /\ dc_videos' = r.db.videos
           /\ dc_transcripts' = r.db.transcripts
           /\ analyses' = r.db.analyses
           /\ runs' = Append(runs, [raised |-> r.raised,
                                    unique_videos |-> r.unique_videos,
                                    summary |-> r.summary,
                                    counts |-> RowCounts(r.db)])
  /\ UNCHANGED <<cacheVars, rotVars, trVars, extVars, trendVars, llmVars, raceVars,
                 upstream>>

NextPipe == RunDailyCollectionOp

SpecPipe == InitPipe /\ [][NextPipe]_vars

\* ------------------------------------------------- Trend Aggregator
\* Sentiment scores, in hundredths.
Scores == {-50, -10, 0, 10, 20, 50, 60, 80}

\* The 'sentiment_score' entry of an analysis dict: a number, no entry at
\* all, or an entry holding None (a NULL column read by
\* PersonalizedReportService).
SentimentFields ==
  { [kind |-> "absent", value |-> 0], [kind |-> "null", value |-> 0] } \cup
  { [kind |-> "number", value |-> x] : x \in Scores }

AnalysisLists == UNION { [1..n -> SentimentFields] : n \in 0..MaxAnalyses }

\* What chat.completions.create does for the trend prompt: raise, answer
\* without choices, or answer a text.
TrendOutcomes ==
  { [kind |-> "raise", content |-> <<>>],
    [kind |-> "no_choices", content |-> <<>>] } \cup
  { [kind |-> "content", content |-> c] : c \in Contents }

RECURSIVE SumScores(_)
SumScores(analysis_list) ==
  IF analysis_list = <<>> THEN 0
  ELSE Head(analysis_list).value + SumScores(Tail(analysis_list))

Abs(x) == IF x < 0 THEN 0 - x ELSE x

\* f"{avg_sentiment:.2f}" for avg_sentiment = total / n: the nearest
\* hundredth.
Format2f(total, n) ==
  LET r == (2 * Abs(total) + n) \div (2 * n)
  IN  IF total < 0 THEN 0 - r ELSE r

\* The scores are decimal numbers here and binary floating-point numbers in
\* the program.  The two agree on the label and on the two-decimal mean
\* except where rounding decides: a mean halfway between two hundredths, and
\* a mean of three or more scores that is exactly a threshold.
RoundingFree(analysis_list) ==
  LET total == SumScores(analysis_list)
      n == Len(analysis_list)
  IN  IF n = 0 THEN TRUE
      ELSE /\ (2 * Abs(total) + n) % (2 * n) # 0
           /\ n >= 3 => Abs(total) # 10 * n

\* sentiment_label as the fallback path derives it, thresholds 0.1 and -0.1.
SentimentLabelAt5(total, n) ==
  IF total > 5 * n THEN "bullish"
  ELSE IF total < 0 - 5 * n THEN "bearish"
  ELSE "neutral"

SentimentLabel(total, n) ==
  IF total > 10 * n THEN "bullish"
  ELSE IF total < 0 - 10 * n THEN "bearish"
  ELSE "neutral"

TrendObject(kind, market_sentiment, avg, count, key_themes) ==
  [kind |-> kind, market_sentiment |-> market_sentiment,
   avg_sentiment |-> avg, count |-> count, key_themes |-> key_themes]

\* generate_trend_analysis(analyses, keywords): the fixed object for no
\* analyses; else the statistics, computed before the try (sum raises
\* TypeError on a None score; a missing entry counts 0); then the LLM's
\* object when its answer parses, and the object built from the statistics
\* on any failure inside the try.
GenerateTrendAnalysis(analysis_list, kws, llm) ==
  LET n == Len(analysis_list)
      total == SumScores(analysis_list)
      themes == IF kws # <<>> THEN {kws[i] : i \in 1..Len(kws)}
                              ELSE {"default themes"}
  IN  IF n = 0
        THEN [raised |-> "", value |-> TrendObject("no_data", "neutral", 0, 0, {})]
      ELSE IF \E i \in 1..n : analysis_list[i].kind = "null"
        THEN [raised |-> "TypeError", value |-> None]
      ELSE IF llm.kind = "content" /\ ParseOf(llm.content) = "ok"
        THEN [raised |-> "", value |-> TrendObject("llm", "llm", 0, n, {})]
      ELSE [raised |-> "",
            value |-> TrendObject("fallback", SentimentLabel(total, n),
                                  Format2f(total, n), n, themes)]

\* ---------------------------------------- the aggregator's one call
\* Any analyses on which decimal and binary arithmetic agree, any of two
\* keyword lists, any answer.
InitTrend ==
  /\ CacheIdle /\ RotIdle /\ TrIdle /\ ExtIdle /\ PipeIdle /\ LlmIdle /\ RaceIdle
  /\ \E analysis_list \in AnalysisLists, kws \in {<<>>, KeywordList},
        llm \in TrendOutcomes :
       /\ RoundingFree(analysis_list)
       /\ trend_in = [analyses |-> analysis_list, keywords |-> kws, llm |-> llm]
  /\ trend_out = None

GenerateTrendAnalysisOp ==
  /\ trend_out = None
  /\ LET r == GenerateTrendAnalysis(trend_in.analyses, trend_in.keywords,
                                    trend_in.llm)
     IN  trend_out' = [raised |-> r.raised, value |-> r.value]
  /\ UNCHANGED <<cacheVars, rotVars, trVars, extVars, pipeVars, llmVars, raceVars,
                 trend_in>>

NextTrend == GenerateTrendAnalysisOp

SpecTrend == InitTrend /\ [][NextTrend]_vars

\* ------------------------------------------ the analyzers' exceptions
\* What one call of chat.completions.create can do, over every text of up
\* to MaxLen tokens and the texts in use.
TextOutcomes ==
  { [raises |-> TRUE, content |-> <<>>, payload |-> 0] } \cup
  { [raises |-> FALSE, content |-> c,
     payload |-> IF ParseOf(c) = "ok" THEN p ELSE 0] :
       c \in Texts \cup Contents, p \in {0} \cup Payloads }

\* What the try block of analyze_content_with_ai (lines 187-300) raises for
\* an answer: the client's error, ValueError for an empty text or one
\* without a brace span, JSONDecodeError from json.loads, TypeError from the
\* field mapping; "" when it returns.
AnalysisAttempt(llm) ==
  IF llm.raises THEN "APIError"
  ELSE IF ParseOf(llm.content) = "value" THEN "ValueError"
  ELSE IF ParseOf(llm.content) = "decode" THEN "JSONDecodeError"
  ELSE IF llm.payload = 0 THEN "TypeError"
  ELSE ""

\* What the try block of analyze_transcript (lines 55-77) raises: the same,
\* without a field mapping (the parsed object is returned as it is).
TranscriptAttempt(llm) ==
  IF llm.raises THEN "APIError"
  ELSE IF ParseOf(llm.content) = "value" THEN "ValueError"
  ELSE IF ParseOf(llm.content) = "decode" THEN "JSONDecodeError"
  ELSE ""

\* An except clause of the list catches the error.
Caught(error, clauses) ==
  error # "" /\ (error \in clauses \/ "Exception" \in clauses)

\* The except clauses of analyze_content_with_ai (lines 302, 314).
SmartHandlersJsonOnly == {"JSONDecodeError"}

SmartHandlers == {"JSONDecodeError", "Exception"}

\* The except clause of analyze_transcript (line 79).
BaselineHandlers == {"Exception"}

\* analyze_content_with_ai as its caller meets it: what it raised, with how
\* it ended.  The lookup and the save catch their own errors.
CallAnalyzeContentWithAi(db, video_id, transcript, enabled, llm, t, fail) ==
  LET r == AnalyzeContentWithAi(db, video_id, transcript, enabled, llm, t, fail)
      error == IF r.calls = 0 THEN "" ELSE AnalysisAttempt(llm)
  IN  [db |-> r.db, out |-> r.out, calls |-> r.calls,
       raised |-> IF error # "" /\ ~Caught(error, SmartHandlers)
                    THEN error ELSE ""]

\* analyze_transcript as its caller meets it: the parsed object, or the
\* fixed object of the handler ("분석 실패").
AnalyzeTranscript(llm) ==
  LET error == TranscriptAttempt(llm)
  IN  IF error = ""
        THEN [raised |-> "", kind |-> "parsed", payload |-> llm.payload]
      ELSE IF Caught(error, BaselineHandlers)
        THEN [raised |-> "", kind |-> "fallback", payload |-> 0]
      ELSE [raised |-> error, kind |-> "none", payload |-> 0]

\* An empty store, the analyzer enabled or not, and any answer of the LLM
\* service, the same at every call.
InitLlm ==
  /\ RotIdle /\ TrIdle /\ ExtIdle /\ PipeIdle /\ TrendIdle /\ RaceIdle
  /\ videos = [v \in Videos |-> NoVideo]
  /\ transcripts = [v \in Videos |-> NoTranscript]
  /\ video_analyses = [v \in Videos |-> NoAnalysis]
  /\ analysis_cache = [v \in Videos |-> NoCache]
  /\ ai_enabled \in BOOLEAN
  /\ now = 0
  /\ nops = 0
  /\ last = NoOp
  /\ llm_answer \in TextOutcomes
  /\ smart_out = None
  /\ baseline_out = None

AnalyzeContentWithAiCall ==
  /\ nops < MaxOps
  /\ \E v \in Videos, fail \in FailPoints(llm_answer) :
       LET r == CallAnalyzeContentWithAi(DB, v, 1, ai_enabled, llm_answer,
                                         now, fail)
       IN  /\ Commit(r.db)
           /\ Record(OpRecord("analyze_content_with_ai", v, 1, r.out, r.calls,
                              IF fail = "lookup" THEN "failed"
                              ELSE IF r.out = "hit" THEN "hit" ELSE "miss"))
           /\ smart_out' = [raised |-> r.raised, out |-> r.out]
  /\ UNCHANGED <<ai_enabled, now, rotVars, trVars, extVars, pipeVars, trendVars,
                 raceVars, llm_answer, baseline_out>>

AnalyzeTranscriptCall ==
  /\ baseline_out = None
  /\ baseline_out' = AnalyzeTranscript(llm_answer)
  /\ UNCHANGED <<cacheVars, rotVars, trVars, extVars, pipeVars, trendVars,
                 raceVars, llm_answer, smart_out>>

NextLlm ==
  \/ AnalyzeContentWithAiCall
  \/ AnalyzeTranscriptCall

SpecLlm == InitLlm /\ [][NextLlm]_vars

\* ------------------------------------------ concurrent analyzer calls
\* NumProcs calls of analyze_content_with_ai for video 1 run at once (the
\* reporter and the bot share the database).  Each call goes through its
\* steps: the lookup (get_cached_analysis, one session), the LLM call, and
\* save_analysis_result in its own session: the query for an existing
\* analysis row and the commit of the update or insert, then
\* _update_cache_info's query for an existing index row and its commit.
\* video_id is unique in video_analyses and in analysis_cache: the insert
\* of a second row raises IntegrityError, which save_analysis_result
\* catches (rollback, False).
Procs == 1..NumProcs

NoLocal == [payload |-> 0, existing_analysis |-> FALSE,
            existing_cache |-> NoCache, saved |-> "", result |-> "none"]

\* The state check_and_analyze_updates leaves before it analyses:
\* save_video_data(video_info, transcript) has stored the video, with its
\* transcript when it has one; the analyzer is enabled.
InitRace ==
  /\ RotIdle /\ TrIdle /\ ExtIdle /\ PipeIdle /\ TrendIdle /\ LlmIdle
  /\ \E text \in {0} \cup Strings :
       LET db == SaveVideoData(
                   [videos |-> [v \in Videos |-> NoVideo],
                    transcripts |-> [v \in Videos |-> NoTranscript],
                    video_analyses |-> [v \in Videos |-> NoAnalysis],
                    analysis_cache |-> [v \in Videos |-> NoCache]],
                   1, 1, text, FALSE).db
       IN  /\ videos = db.videos
           /\ transcripts = db.transcripts
           /\ video_analyses = db.video_analyses
           /\ analysis_cache = db.analysis_cache
  /\ ai_enabled = TRUE
  /\ now = 0
  /\ nops = 0
  /\ last = NoOp
  /\ race_pc = [p \in Procs |-> "lookup"]
  /\ race_local = [p \in Procs |-> NoLocal]
  /\ race_calls = 0

\* Step 1: get_cached_analysis; a stored record ends the call.
RaceLookup(p) ==
  /\ race_pc[p] = "lookup"
  /\ LET r == GetCachedAnalysis(DB, 1, now, FALSE)
     IN  /\ Commit(r.db)
         /\ race_pc' = [race_pc EXCEPT ![p] = IF r.found THEN "done" ELSE "llm"]
         /\ race_local' = [race_local EXCEPT
                             ![p].result = IF r.found THEN "hit" ELSE "none"]
  /\ UNCHANGED <<ai_enabled, now, nops, last, rotVars, trVars, extVars, pipeVars,
                 trendVars, llmVars, race_calls>>

\* Step 3: the LLM call and the parse; a failure ends the call with the
\* degraded result.
RaceLlm(p) ==
  /\ race_pc[p] = "llm"
  /\ \E llm \in LLMOutcomes :
       /\ race_calls' = race_calls + 1
       /\ IF AnalysisAttempt(llm) # ""
            THEN /\ race_pc' = [race_pc EXCEPT ![p] = "done"]
                 /\ race_local' = [race_local EXCEPT ![p].result = "fallback"]
            ELSE /\ race_pc' = [race_pc EXCEPT ![p] = "save_query"]
                 /\ race_local' = [race_local EXCEPT ![p].payload = llm.payload,
                                                     ![p].result = "parsed"]
  /\ UNCHANGED <<cacheVars, rotVars, trVars, extVars, pipeVars, trendVars, llmVars>>

\* save_analysis_result, line 98: existing_analysis.
RaceSaveQuery(p) ==
  /\ race_pc[p] = "save_query"
  /\ race_local' = [race_local EXCEPT
                      ![p].existing_analysis = video_analyses[1].present]
  /\ race_pc' = [race_pc EXCEPT ![p] = "save_commit"]
  /\ UNCHANGED <<cacheVars, rotVars, trVars, extVars, pipeVars, trendVars, llmVars,
                 race_calls>>

\* save_analysis_result, lines 102-134: the update of the row found, or the
\* insert of a new one, committed.
RaceSaveCommit(p) ==
  /\ race_pc[p] = "save_commit"
  /\ IF ~race_local[p].existing_analysis /\ video_analyses[1].present
       THEN /\ race_pc' = [race_pc EXCEPT ![p] = "done"]
            /\ race_local' = [race_local EXCEPT ![p].saved = "False"]
            /\ UNCHANGED video_analyses
       ELSE /\ video_analyses' = [video_analyses EXCEPT ![1] =
                 [present |-> TRUE, payload |-> race_local[p].payload]]
            /\ race_pc' = [race_pc EXCEPT ![p] = "cache_query"]
            /\ UNCHANGED race_local
  /\ UNCHANGED <<videos, transcripts, analysis_cache, ai_enabled, now, nops,
                 last, rotVars, trVars, extVars, pipeVars, trendVars, llmVars,
                 race_calls>>

\* _update_cache_info, lines 178-184: nothing without a transcript row; else
\* existing_cache.
RaceCacheQuery(p) ==
  /\ race_pc[p] = "cache_query"
  /\ IF ~transcripts[1].present
       THEN /\ race_pc' = [race_pc EXCEPT ![p] = "done"]
            /\ race_local' = [race_local EXCEPT ![p].saved = "True"]
       ELSE /\ race_pc' = [race_pc EXCEPT ![p] = "cache_commit"]
            /\ race_local' = [race_local EXCEPT
                                ![p].existing_cache = analysis_cache[1]]
  /\ UNCHANGED <<cacheVars, rotVars, trVars, extVars, pipeVars, trendVars, llmVars,
                 race_calls>>

\* _update_cache_info, lines 186-200: the update of the row found (its
\* access_count one more than was read), or the insert, committed.
RaceCacheCommit(p) ==
  /\ race_pc[p] = "cache_commit"
  /\ LET cache_key == GenerateCacheKey(1, transcripts[1].text)
         existing_cache == race_local[p].existing_cache
     IN  IF ~existing_cache.present /\ analysis_cache[1].present
           THEN /\ race_local' = [race_local EXCEPT ![p].saved = "False"]
                /\ UNCHANGED analysis_cache
           ELSE /\ analysis_cache' = [analysis_cache EXCEPT ![1] =
                     [present |-> TRUE, key |-> cache_key, last |-> now,
                      count |-> IF existing_cache.present
                                  THEN existing_cache.count + 1 ELSE 1]]
                /\ race_local' = [race_local EXCEPT ![p].saved = "True"]
  /\ race_pc' = [race_pc EXCEPT ![p] = "done"]
  /\ UNCHANGED <<videos, transcripts, video_analyses, ai_enabled, now, nops,
                 last, rotVars, trVars, extVars, pipeVars, trendVars, llmVars,
                 race_calls>>

NextRace ==
  \E p \in Procs :
    \/ RaceLookup(p)
    \/ RaceLlm(p)
    \/ RaceSaveQuery(p)
    \/ RaceSaveCommit(p)
    \/ RaceCacheQuery(p)
    \/ RaceCacheCommit(p)

SpecRace == InitRace /\ [][NextRace]_vars

\* ---------------------------------- DataCollector's tables, row by row
\* The tables as lists of rows, so that two rows with one key can be told
\* from one: channels rows are [channel_id, data] (data stands for the
\* name, description and counts get_channel_details returned), keywords
\* rows are the keyword, videos rows are [video_id, channel_id], transcripts
\* rows are the video_id, analyses rows are [video_id, keyword, result].
EmptyTables == [channels |-> <<>>, keywords |-> <<>>, videos |-> <<>>,
                transcripts |-> <<>>, analyses |-> <<>>,
                video_analyses |-> <<>>, analysis_cache |-> <<>>]

\* What get_channel_details can return: None (0), or the metadata of the
\* day.
ChannelData == {0} \cup Strings

\* SessionLocal(): autoflush is off, so a query sees the committed rows (db)
\* and not the added ones (pending) until a commit.
open_session(db) == [db |-> db, pending |-> EmptyTables]

Column(rows, name) == [i \in 1..Len(rows) |-> rows[i][name]]

\* A column declared unique=True holds no value twice.
Unique(column) ==
  \A i, j \in 1..Len(column) : column[i] = column[j] => i = j

\* A database whose keywords.keyword column is not declared unique.
UniqueColumnsButKeyword(t) ==
  /\ Unique(Column(t.channels, "channel_id"))
  /\ Unique(Column(t.videos, "video_id"))
  /\ Unique(t.transcripts)
  /\ Unique(t.video_analyses)
  /\ Unique(t.analysis_cache)

\* The unique columns of the tables: channels.channel_id, videos.video_id,
\* transcripts.video_id, keywords.keyword, video_analyses.video_id and
\* analysis_cache.video_id.
UniqueColumns(t) ==
  /\ Unique(Column(t.channels, "channel_id"))
  /\ Unique(Column(t.videos, "video_id"))
  /\ Unique(t.transcripts)
  /\ Unique(t.keywords)
  /\ Unique(t.video_analyses)
  /\ Unique(t.analysis_cache)

Flushed(s) ==
  [channels |-> s.db.channels \o s.pending.channels,
   keywords |-> s.db.keywords \o s.pending.keywords,
   videos |-> s.db.videos \o s.pending.videos,
   transcripts |-> s.db.transcripts \o s.pending.transcripts,
   analyses |-> s.db.analyses \o s.pending.analyses,
   video_analyses |-> s.db.video_analyses \o s.pending.video_analyses,
   analysis_cache |-> s.db.analysis_cache \o s.pending.analysis_cache]

\* db.commit(): the added rows are inserted in one transaction, which the
\* database refuses as a whole (IntegrityError) when a unique column would
\* hold a value twice.
commit(s) ==
  IF UniqueColumns(Flushed(s))
    THEN [s |-> open_session(Flushed(s)), raised |-> ""]
    ELSE [s |-> open_session(s.db), raised |-> "IntegrityError"]

HasChannel(t, channel_id) ==
  \E i \in 1..Len(t.channels) : t.channels[i].channel_id = channel_id

\* What add_channel returns after its commit: the new row.
NewChannel(c) ==
  [s |-> c.s, channel |-> IF c.raised = "" THEN "new" ELSE "None",
   raised |-> c.raised]

\* add_channel: the existing row as it is, or None when the platform has no
\* details, or a new row, committed at once.
add_channel(s, channel_id, channel_data) ==
  IF HasChannel(s.db, channel_id)
    THEN [s |-> s, channel |-> "existing", raised |-> ""]
  ELSE IF channel_data = 0
    THEN [s |-> s, channel |-> "None", raised |-> ""]
  ELSE NewChannel(commit([s EXCEPT !.pending.channels =
           Append(@, [channel_id |-> channel_id, data |-> channel_data])]))

\* The loop of add_keywords: a row is added for each keyword that has no
\* committed row.
RECURSIVE KeywordRows(_, _)
KeywordRows(s, kws) ==
  IF kws = <<>> THEN s
  ELSE KeywordRows(
         IF \E i \in 1..Len(s.db.keywords) : s.db.keywords[i] = Head(kws)
           THEN s
           ELSE [s EXCEPT !.pending.keywords = Append(@, Head(kws))],
         Tail(kws))

\* add_keywords: the loop, then one commit.
add_keywords(s, kws) == commit(KeywordRows(s, kws))

HasVideo(t, video_id) ==
  \E i \in 1..Len(t.videos) : t.videos[i].video_id = video_id

\* What a collect_* operation returns after its commit: the rows it added.
Returning(c, collected) ==
  [s |-> c.s, collected |-> IF c.raised = "" THEN collected ELSE <<>>,
   raised |-> c.raised]

\* The loop of collect_channel_videos: a listed video that has no committed
\* row is added, with the channel id the caller gave.
RECURSIVE ChannelVideoRows(_, _, _, _)
ChannelVideoRows(s, channel_id, videos_data, collected) ==
  IF videos_data = <<>> THEN [s |-> s, collected |-> collected]
  ELSE IF HasVideo(s.db, Head(videos_data))
    THEN ChannelVideoRows(s, channel_id, Tail(videos_data), collected)
  ELSE ChannelVideoRows(
         [s EXCEPT !.pending.videos =
            Append(@, [video_id |-> Head(videos_data),
                       channel_id |-> channel_id])],
         channel_id, Tail(videos_data), Append(collected, Head(videos_data)))

CommitCollected(r) == Returning(commit(r.s), r.collected)

\* collect_channel_videos: the loop, then one commit.
collect_channel_videos(s, channel_id, videos_data) ==
  CommitCollected(ChannelVideoRows(s, channel_id, videos_data, <<>>))

\* The loop of collect_keyword_videos: a found video that has no committed
\* row gets its channel added when that has no committed row (whatever
\* add_channel returns), and is added itself.
RECURSIVE KeywordVideoRows(_, _, _, _)
RECURSIVE VideoRowAfterChannel(_, _, _, _)
KeywordVideoRows(s, videos_data, details, collected) ==
  IF videos_data = <<>>
    THEN [s |-> s, collected |-> collected, raised |-> ""]
  ELSE IF HasVideo(s.db, Head(videos_data))
    THEN KeywordVideoRows(s, Tail(videos_data), details, collected)
  ELSE VideoRowAfterChannel(
         IF HasChannel(s.db, Owner(Head(videos_data)))
           THEN [s |-> s, channel |-> "existing", raised |-> ""]
           ELSE add_channel(s, Owner(Head(videos_data)),
                            details[Owner(Head(videos_data))]),
         videos_data, details, collected)

VideoRowAfterChannel(a, videos_data, details, collected) ==
  IF a.raised # ""
    THEN [s |-> a.s, collected |-> collected, raised |-> a.raised]
  ELSE KeywordVideoRows(
         [a.s EXCEPT !.pending.videos =
            Append(@, [video_id |-> Head(videos_data),
                       channel_id |-> Owner(Head(videos_data))])],
         Tail(videos_data), details, Append(collected, Head(videos_data)))

CommitFound(r) ==
  IF r.raised # ""
    THEN [s |-> r.s, collected |-> <<>>, raised |-> r.raised]
    ELSE Returning(commit(r.s), r.collected)

\* collect_keyword_videos: the loop, then one commit.
collect_keyword_videos(s, videos_data, details) ==
  CommitFound(KeywordVideoRows(s, videos_data, details, <<>>))

HasTranscript(t, video_id) ==
  \E i \in 1..Len(t.transcripts) : t.transcripts[i] = video_id

\* The loop of collect_video_transcripts: a video without a committed
\* transcript row is asked for, and what is found is added.
RECURSIVE TranscriptRows(_, _, _, _)
TranscriptRows(s, vids, transcript_data, collected) ==
  IF vids = <<>> THEN [s |-> s, collected |-> collected]
  ELSE IF HasTranscript(s.db, Head(vids)) \/ ~transcript_data[Head(vids)]
    THEN TranscriptRows(s, Tail(vids), transcript_data, collected)
  ELSE TranscriptRows(
         [s EXCEPT !.pending.transcripts = Append(@, Head(vids))],
         Tail(vids), transcript_data, Append(collected, Head(vids)))

\* collect_video_transcripts: the loop, then one commit.
collect_video_transcripts(s, vids, transcript_data) ==
  CommitCollected(TranscriptRows(s, vids, transcript_data, <<>>))

\* A loop that takes no video as analysed.
HasAnalysisRowUnchecked(t, video_id) == FALSE

HasAnalysisRow(t, video_id) ==
  \E i \in 1..Len(t.analyses) : t.analyses[i].video_id = video_id

IsRegistered(t, keyword) ==
  \E i \in 1..Len(t.keywords) : t.keywords[i] = keyword

\* The loop over the keywords for one analysed video: a row with the
\* video's result for each keyword of the list that has a Keyword row.
RECURSIVE AnalysisRows(_, _, _, _)
AnalysisRows(s, video_id, kws, result) ==
  IF kws = <<>> THEN s
  ELSE AnalysisRows(
         IF IsRegistered(s.db, Head(kws))
           THEN [s EXCEPT !.pending.analyses =
                   Append(@, [video_id |-> video_id, keyword |-> Head(kws),
                              result |-> result])]
           ELSE s,
         video_id, Tail(kws), result)

\* The loop of analyze_videos: a video with a committed Analysis row is
\* skipped; for the others analyze_transcript is called once (calls lists
\* the videos it was called for) and its result is stored keyword by
\* keyword. Reading a field the result lacks raises KeyError.
RECURSIVE AnalyzeRows(_, _, _, _, _)
AnalyzeRows(s, vids, kws, llm, calls) ==
  IF vids = <<>> THEN [s |-> s, calls |-> calls, raised |-> ""]
  ELSE IF HasAnalysisRow(s.db, Head(vids))
    THEN AnalyzeRows(s, Tail(vids), kws, llm, calls)
  ELSE IF /\ llm[Head(vids)] = "partial"
          /\ \E i \in 1..Len(kws) : IsRegistered(s.db, kws[i])
    THEN [s |-> s, calls |-> Append(calls, Head(vids)), raised |-> "KeyError"]
  ELSE AnalyzeRows(AnalysisRows(s, Head(vids), kws, llm[Head(vids)]),
                   Tail(vids), kws, llm, Append(calls, Head(vids)))

Analysed(c, rows, calls) ==
  [s |-> c.s, analyses |-> IF c.raised = "" THEN rows ELSE <<>>,
   calls |-> calls, raised |-> c.raised]

CommitAnalysed(r) ==
  IF r.raised # ""
    THEN [s |-> open_session(r.s.db), analyses |-> <<>>, calls |-> r.calls,
          raised |-> r.raised]
    ELSE Analysed(commit(r.s), r.s.pending.analyses, r.calls)

\* analyze_videos: the loop, then one commit; the rows added are returned.
analyze_videos(s, vids, kws, llm) ==
  CommitAnalysed(AnalyzeRows(s, vids, kws, llm, <<>>))

\* ------------------------------------------- DataCollector's calls
\* The lists a caller can pass or the platform can return: video ids as
\* the platform lists them (a page can repeat an id), keyword lists as
\* callers write them, and lists of stored videos (rows of a query).
Listings == UNION {[1..n -> PipeVideos] : n \in 0..MaxListed}
KeywordLists == UNION {[1..n -> KeywordSet] : n \in 0..MaxListed}
StoredVideos(t) == {t.videos[i].video_id : i \in 1..Len(t.videos)}
VideoLists(t) ==
  {l \in Listings : /\ \A i \in 1..Len(l) : l[i] \in StoredVideos(t)
                    /\ Unique(l)}

NoCall == [op |-> "none", channel_id |-> 0, channel_data |-> 0, vids |-> <<>>,
           kws |-> <<>>, llm |-> <<>>, before |-> EmptyTables,
           raised |-> "", channel |-> "None", calls |-> <<>>]

InitIngest ==
  /\ CacheIdle /\ RotIdle /\ TrIdle
  /\ PipeIdle /\ TrendIdle /\ LlmIdle /\ RaceIdle /\ RoundIdle
  /\ tables = EmptyTables
  /\ ing = NoCall
  /\ nings = 0

\* test_data_collection, routes.py and the bot call add_channel on its own.
AddChannelCall ==
  /\ nings < MaxIngests
  /\ \E channel_id \in PipeChannels, channel_data \in ChannelData :
       LET r == add_channel(open_session(tables), channel_id, channel_data)
       IN  /\ tables' = r.s.db
           /\ ing' = [NoCall EXCEPT !.op = "add_channel",
                                    !.channel_id = channel_id,
                                    !.channel_data = channel_data,
                                    !.before = tables,
                                    !.raised = r.raised,
                                    !.channel = r.channel]
  /\ nings' = nings + 1
  /\ UNCHANGED <<cacheVars, rotVars, trVars, pipeVars, trendVars, llmVars,
                 raceVars, roundVars>>

AddKeywordsCall ==
  /\ nings < MaxIngests
  /\ \E kws \in KeywordLists :
       LET r == add_keywords(open_session(tables), kws)
       IN  /\ tables' = r.s.db
           /\ ing' = [NoCall EXCEPT !.op = "add_keywords", !.kws = kws,
                                    !.before = tables, !.raised = r.raised]
  /\ nings' = nings + 1
  /\ UNCHANGED <<cacheVars, rotVars, trVars, pipeVars, trendVars, llmVars,
                 raceVars, roundVars>>

CollectChannelVideosCall ==
  /\ nings < MaxIngests
  /\ \E channel_id \in PipeChannels, videos_data \in Listings :
       LET r == collect_channel_videos(open_session(tables), channel_id,
                                       videos_data)
       IN  /\ \A i \in 1..Len(videos_data) : Owner(videos_data[i]) = channel_id
           /\ tables' = r.s.db
           /\ ing' = [NoCall EXCEPT !.op = "collect_channel_videos",
                                    !.channel_id = channel_id,
                                    !.vids = videos_data,
                                    !.before = tables, !.raised = r.raised]
  /\ nings' = nings + 1
  /\ UNCHANGED <<cacheVars, rotVars, trVars, pipeVars, trendVars, llmVars,
                 raceVars, roundVars>>

CollectKeywordVideosCall ==
  /\ nings < MaxIngests
  /\ \E videos_data \in Listings, details \in [PipeChannels -> ChannelData] :
       LET r == collect_keyword_videos(open_session(tables), videos_data,
                                       details)
       IN  /\ tables' = r.s.db
           /\ ing' = [NoCall EXCEPT !.op = "collect_keyword_videos",
                                    !.vids = videos_data,
                                    !.before = tables, !.raised = r.raised]
  /\ nings' = nings + 1
  /\ UNCHANGED <<cacheVars, rotVars, trVars, pipeVars, trendVars, llmVars,
                 raceVars, roundVars>>

CollectVideoTranscriptsCall ==
  /\ nings < MaxIngests
  /\ \E vids \in VideoLists(tables),
        transcript_data \in [PipeVideos -> BOOLEAN] :
       LET r == collect_video_transcripts(open_session(tables), vids,
                                          transcript_data)
       IN  /\ tables' = r.s.db
           /\ ing' = [NoCall EXCEPT !.op = "collect_video_transcripts",
                                    !.vids = vids,
                                    !.before = tables, !.raised = r.raised]
  /\ nings' = nings + 1
  /\ UNCHANGED <<cacheVars, rotVars, trVars, pipeVars, trendVars, llmVars,
                 raceVars, roundVars>>

\* analyze_videos, as run_daily_collection and the scripts call it.
AnalyzeVideosCall ==
  /\ nings < MaxIngests
  /\ \E vids \in VideoLists(tables), kws \in KeywordLists,
        llm \in [PipeVideos -> LlmAnswers] :
       LET r == analyze_videos(open_session(tables), vids, kws, llm)
       IN  /\ tables' = r.s.db
           /\ ing' = [NoCall EXCEPT !.op = "analyze_videos", !.vids = vids,
                                    !.kws = kws, !.llm = llm,
                                    !.before = tables, !.raised = r.raised,
                                    !.calls = r.calls]
  /\ nings' = nings + 1
  /\ UNCHANGED <<cacheVars, rotVars, trVars, pipeVars, trendVars, llmVars,
                 raceVars, roundVars>>

NextIngest ==
  \/ AddChannelCall
  \/ AddKeywordsCall
  \/ CollectChannelVideosCall
  \/ CollectKeywordVideosCall
  \/ CollectVideoTranscriptsCall
  \/ AnalyzeVideosCall

SpecIngest == InitIngest /\ [][NextIngest]_vars

\* ------------------------------------------ analyze_videos on stored rows
\* The keyword lists that name no keyword twice.
Registrations == {kws \in KeywordLists : Unique(kws)}

\* Every video found by a keyword search and stored with its channel.
AllStored(s) ==
  collect_keyword_videos(s, [i \in 1..NumPipeVideos |-> i],
                         [c \in PipeChannels |-> 1]).s

\* The tables after add_keywords, a keyword search that stored the videos,
\* and an analyze_videos call on some of them.
StoredTables ==
  {analyze_videos(AllStored(add_keywords(open_session(EmptyTables), reg).s),
                  first, kws, [v \in PipeVideos |-> answer]).s.db :
     reg \in Registrations, kws \in Registrations,
     first \in VideoLists(AllStored(open_session(EmptyTables)).db),
     answer \in {"ok", "fallback"}}

InitStored ==
  /\ CacheIdle /\ RotIdle /\ TrIdle
  /\ PipeIdle /\ TrendIdle /\ LlmIdle /\ RaceIdle /\ RoundIdle
  /\ tables \in StoredTables
  /\ ing = NoCall
  /\ nings = 0

\* One analyze_videos call on the stored rows, with any list of stored
\* videos, any keyword list and any answers of the LLM.
AnalyzeStored ==
  /\ nings = 0
  /\ \E vids \in VideoLists(tables), kws \in KeywordLists,
        llm \in [PipeVideos -> LlmAnswers] :
       LET r == analyze_videos(open_session(tables), vids, kws, llm)
       IN  /\ tables' = r.s.db
           /\ ing' = [NoCall EXCEPT !.op = "analyze_videos", !.vids = vids,
                                    !.kws = kws, !.llm = llm,
                                    !.before = tables, !.raised = r.raised,
                                    !.calls = r.calls]
  /\ nings' = 1
  /\ UNCHANGED <<cacheVars, rotVars, trVars, pipeVars, trendVars, llmVars,
                 raceVars, roundVars>>

NextStored == AnalyzeStored

SpecStored == InitStored /\ [][NextStored]_vars

\* ------------------------------------- VideoCacheService, row by row
\* The rows of video_analyses and analysis_cache are their video ids; an
\* update of a row found leaves the ids as they are.
HasRow(rows, video_id) == \E i \in 1..Len(rows) : rows[i] = video_id

\* What save_video_data and save_analysis_result return.
Saved(c) ==
  [s |-> c.s, ret |-> c.raised = "", raised |-> c.raised]

\* save_video_data, lines 35-59: the Video row is updated when the query
\* finds it and added otherwise.
VideoRow(s, video_id, channel_id) ==
  IF HasVideo(s.db, video_id) THEN s
  ELSE [s EXCEPT !.pending.videos =
          Append(@, [video_id |-> video_id, channel_id |-> channel_id])]

\* _save_transcript: the Transcript row is updated when the query finds it
\* and added otherwise.
TranscriptRow(s, video_id) ==
  IF HasTranscript(s.db, video_id) THEN s
  ELSE [s EXCEPT !.pending.transcripts = Append(@, video_id)]

\* save_video_data: the Video row, the Transcript row when a text is given,
\* then one commit; an exception is rolled back and False returned.
save_video_data(s, video_id, channel_id, transcript_text) ==
  Saved(commit(IF transcript_text
                 THEN TranscriptRow(VideoRow(s, video_id, channel_id),
                                     video_id)
                 ELSE VideoRow(s, video_id, channel_id)))

\* _update_cache_info: nothing without a Transcript row; else the
\* AnalysisCache row is updated when the query finds it and added
\* otherwise, and committed.
update_cache_info(c, video_id) ==
  IF c.raised # "" \/ ~HasTranscript(c.s.db, video_id) THEN c
  ELSE IF HasRow(c.s.db.analysis_cache, video_id) THEN commit(c.s)
  ELSE commit([c.s EXCEPT !.pending.analysis_cache = Append(@, video_id)])

\* save_analysis_result: the VideoAnalysis row is updated when the query
\* finds it and added otherwise, and committed; then _update_cache_info.
save_analysis_result(s, video_id) ==
  Saved(update_cache_info(
          commit(IF HasRow(s.db.video_analyses, video_id) THEN s
                 ELSE [s EXCEPT !.pending.video_analyses =
                         Append(@, video_id)]),
          video_id))

\* ----------------------------------------- the services' calls, any order
\* One call on the tables: its outcome is kept, its inputs are not.
Called(op, r) ==
  /\ tables' = r.s.db
  /\ ing' = [NoCall EXCEPT !.op = op, !.raised = r.raised]
  /\ nings' = nings + 1
  /\ UNCHANGED <<cacheVars, rotVars, trVars, pipeVars, trendVars, llmVars,
                 raceVars, roundVars>>

\* What get_channel_details yields here: None (0), or one metadata.
Lookups == {0, 1}

KeysAddChannel ==
  /\ nings < MaxIngests
  /\ \E channel_id \in PipeChannels, channel_data \in Lookups :
      Called("add_channel",
             add_channel(open_session(tables), channel_id, channel_data))

KeysAddKeywords ==
  /\ nings < MaxIngests
  /\ \E kws \in KeywordLists :
      Called("add_keywords", add_keywords(open_session(tables), kws))

KeysCollectChannelVideos ==
  /\ nings < MaxIngests
  /\ \E channel_id \in PipeChannels, videos_data \in Listings :
      /\ \A i \in 1..Len(videos_data) : Owner(videos_data[i]) = channel_id
      /\ Called("collect_channel_videos",
                collect_channel_videos(open_session(tables), channel_id,
                                       videos_data))

KeysCollectKeywordVideos ==
  /\ nings < MaxIngests
  /\ \E videos_data \in Listings, details \in [PipeChannels -> Lookups] :
      Called("collect_keyword_videos",
             collect_keyword_videos(open_session(tables), videos_data, details))

KeysCollectVideoTranscripts ==
  /\ nings < MaxIngests
  /\ \E vids \in VideoLists(tables), transcript_data \in [PipeVideos -> BOOLEAN] :
      Called("collect_video_transcripts",
             collect_video_transcripts(open_session(tables), vids,
                                       transcript_data))

KeysSaveVideoData ==
  /\ nings < MaxIngests
  /\ \E video_id \in PipeVideos, with_channel \in BOOLEAN,
       transcript_text \in BOOLEAN :
      Called("save_video_data",
             save_video_data(open_session(tables), video_id,
                             IF with_channel THEN Owner(video_id) ELSE 0,
                             transcript_text))

KeysSaveAnalysisResult ==
  /\ nings < MaxIngests
  /\ \E video_id \in PipeVideos :
      Called("save_analysis_result",
             save_analysis_result(open_session(tables), video_id))

NextKeys ==
  \/ KeysAddChannel
  \/ KeysAddKeywords
  \/ KeysCollectChannelVideos
  \/ KeysCollectKeywordVideos
  \/ KeysCollectVideoTranscripts
  \/ KeysSaveVideoData
  \/ KeysSaveAnalysisResult

SpecKeys == InitIngest /\ [][NextKeys]_vars

\* ------------------------------- the analysis record, field by field
\* JSON values and column values: kind says what the value is, val holds
\* a string's or a list's content, a number (<<n>>), or, for an object,
\* its current_situation (<<>> when it has none, <<0>> for null, <<s>> for
\* the string s).  "absent" is a key the object does not have.
Absent == [kind |-> "absent", val |-> <<>>]
Null == [kind |-> "null", val |-> <<>>]
Str(chars) == [kind |-> "str", val |-> chars]
List(items) == [kind |-> "list", val |-> items]
Num(n) == [kind |-> "num", val |-> <<n>>]
Dict(current_situation) == [kind |-> "dict", val |-> current_situation]

\* The fixed strings of the code.
SeeDetails == Str(<<2>>)      \* "상세 분석을 확인하세요."
Analysing == Str(<<3>>)       \* "분석 중"
Neutral == Str(<<4>>)         \* "neutral"
Half == Num(5)                \* 0.5

ItemLists == {List([i \in 1..n |-> 1]) : n \in 0..MaxItems}

\* What the LLM can put in a field of its JSON object.
LlmResults ==
  [executive_summary : {Absent, Null, Str(<<>>), Str(<<1>>)},
   detailed_insights : {Absent, Null} \cup ItemLists,
   sentiment : {Absent, Null, Str(<<1>>)},
   importance : {Absent, Null, Num(8)},
   topics : {Absent, Null, List(<<>>), List(<<1>>)},
   market_analysis : {Absent, Null, Dict(<<>>), Dict(<<0>>), Dict(<<1>>)},
   actionable_steps : {Absent, Null} \cup ItemLists]

\* dict.get(key, default)
Get(obj, key, default) ==
  IF obj[key].kind = "absent" THEN default ELSE obj[key]

\* value[:n] of a list; None[:n] raises TypeError.
CanSlice(value) == value.kind = "list"
Slice(value, n) ==
  List(SubSeq(value.val, 1, IF Len(value.val) < n THEN Len(value.val) ELSE n))

\* market_analysis.get("current_situation", "분석 중"); None.get raises
\* AttributeError.
CurrentSituation(market_analysis) ==
  IF market_analysis.val = <<>> THEN Analysing
  ELSE IF market_analysis.val = <<0>> THEN Null
  ELSE Str(market_analysis.val)

\* value or default
Or(value, default) ==
  IF value.kind = "null" \/ value.val = <<>> THEN default ELSE value

\* Lines 283-293 of analyze_content_with_ai: legacy_result, or the
\* exception of a slice or a .get on a value of the wrong type.
LegacyResult(result) ==
  IF \/ ~CanSlice(Get(result, "detailed_insights", List(<<>>)))
     \/ ~CanSlice(Get(result, "actionable_steps", List(<<>>)))
     \/ Get(result, "market_analysis", Dict(<<>>)).kind # "dict"
    THEN [raised |-> TRUE]
    ELSE [raised |-> FALSE,
          summary |-> Get(result, "executive_summary", SeeDetails),
          key_insights |-> Slice(Get(result, "detailed_insights", List(<<>>)), 4),
          sentiment |-> Get(result, "sentiment", Neutral),
          importance |-> Get(result, "importance", Half),
          topics |-> Get(result, "topics", List(<<>>)),
          market_impact |->
            CurrentSituation(Get(result, "market_analysis", Dict(<<>>))),
          action_items |-> Slice(Get(result, "actionable_steps", List(<<>>)), 2),
          detailed_analysis |-> result]

\* json.dumps / json.loads of a value: a text that holds the value.
Dumps(value) == [kind |-> "json", val |-> <<value>>]
Loads(text) == text.val[1]

\* The columns save_analysis_result writes (a new row, or _update_analysis
\* on the existing one) that a cache hit reads back.
VideoAnalysisRow(analysis_result) ==
  [executive_summary |->
     Get(analysis_result.detailed_analysis, "executive_summary",
         analysis_result.summary),
   sentiment |-> analysis_result.sentiment,
   importance_score |-> analysis_result.importance,
   detailed_insights |->
     Dumps(Get(analysis_result.detailed_analysis, "detailed_insights",
               List(<<>>))),
   market_analysis |->
     Dumps(Get(analysis_result.detailed_analysis, "market_analysis",
               Dict(<<>>))),
   actionable_steps |->
     Dumps(Get(analysis_result.detailed_analysis, "actionable_steps",
               List(<<>>))),
   topics |-> Dumps(analysis_result.topics)]

\* _convert_db_to_analysis_format, the caller-visible fields (the texts
\* save_analysis_result wrote are never empty, so their "or" defaults are
\* not taken, and they hold lists and an object, so nothing raises).
convert_db_to_analysis_format(analysis) ==
  [summary |-> Or(analysis.executive_summary, Str(<<>>)),
   key_insights |-> Slice(Loads(analysis.detailed_insights), 4),
   sentiment |-> analysis.sentiment,
   importance |-> analysis.importance_score,
   topics |-> Loads(analysis.topics),
   market_impact |-> CurrentSituation(Loads(analysis.market_analysis)),
   action_items |-> Slice(Loads(analysis.actionable_steps), 2)]

\* The caller-visible fields of a result.
Visible(r) ==
  [summary |-> r.summary, key_insights |-> r.key_insights,
   sentiment |-> r.sentiment, importance |-> r.importance,
   topics |-> r.topics, market_impact |-> r.market_impact,
   action_items |-> r.action_items]

\* Any JSON object from the LLM; nothing analysed yet.
InitRound ==
  /\ CacheIdle /\ RotIdle /\ TrIdle
  /\ PipeIdle /\ TrendIdle /\ LlmIdle /\ RaceIdle /\ IngestIdle
  /\ rt_result \in LlmResults
  /\ rt_out = None

\* The analyzer's miss call (the field mapping and save_analysis_result),
\* then the call after it for the same video: get_cached_analysis reads
\* the row back.
StoreAndReload ==
  /\ rt_out = None
  /\ rt_out' =
       IF LegacyResult(rt_result).raised
         THEN [stored |-> FALSE]
         ELSE [stored |-> TRUE,
               miss |-> Visible(LegacyResult(rt_result)),
               hit |-> convert_db_to_analysis_format(
                         VideoAnalysisRow(LegacyResult(rt_result)))]
  /\ UNCHANGED <<cacheVars, rotVars, trVars, pipeVars, trendVars, llmVars,
                 raceVars, ingestVars, rt_result>>

NextRound == StoreAndReload

SpecRound == InitRound /\ [][NextRound]_vars

\* ---------------------------------------------------------------- claims
IsAnalyze(rec) == rec.op = "analyze_content_with_ai"

\* last' is the record of an analyzer call made in this step.
AnalyzeStep == nops' = nops + 1 /\ IsAnalyze(last')

\* C1: when a call of the analyzer missed the cache (no rich-analysis record),
\* got a parseable answer and stored it, the call that follows it for the
\* same video id and the same transcript text (its lookup answering) is a
\* cache hit: the two calls make exactly one LLM-service call in total.
C1_SameTranscriptOneLlmCall ==
  [][ ( /\ AnalyzeStep
        /\ IsAnalyze(last) /\ last.vid = last'.vid /\ last.text = last'.text
        /\ last.lookup = "miss" /\ last.out = "stored"
        /\ last'.lookup # "failed" )
      => ( last'.out = "hit" /\ last.calls + last'.calls = 1 ) ]_vars

C1_Witness ==
  /\ IsAnalyze(last) /\ last.after = "stored" /\ ~last.changed
  /\ last.out = "hit" /\ last.calls = 0

\* C2: after a video was analysed and the result stored, a call of the
\* analyzer for the same video id with a changed transcript text makes a
\* second LLM-service call and is not served the stored result.
C2_ChangedTranscriptReanalysed ==
  ( IsAnalyze(last) /\ last.after = "stored" /\ last.changed
    /\ last.lookup # "failed" )
  => ( last.calls = 1 /\ last.out # "hit" )

\* C3: a call of the analyzer that returns a degraded result (the LLM call
\* raised, the answer did not parse, or the analyzer is disabled) creates and
\* updates no rich-analysis record and no cache-index row; and after such a
\* call that had missed the cache, the next call for the same video id (its
\* lookup answering) misses again and, when the analyzer is enabled, calls
\* the LLM service.
C3_DegradedResultNotCached ==
  [][ /\ ( AnalyzeStep /\ last'.out \in {"fallback", "disabled"} )
         => ( video_analyses' = video_analyses /\ analysis_cache' = analysis_cache )
      /\ ( /\ AnalyzeStep
           /\ IsAnalyze(last) /\ last.vid = last'.vid
           /\ last.lookup = "miss" /\ last.out \in {"fallback", "disabled"}
           /\ last'.lookup # "failed" )
         => ( last'.lookup = "miss" /\ (ai_enabled => last'.calls = 1) ) ]_vars

C3_Witness ==
  /\ IsAnalyze(last) /\ last.after = "fallback" /\ last.lookup = "miss"
  /\ last.calls = 1
  /\ ~video_analyses[last.vid].present /\ ~analysis_cache[last.vid].present

\* C4: when a rich-analysis record exists for the video id (and the lookup
\* answers), a call of the analyzer makes no LLM-service call and changes
\* nothing in the store but the video's cache-index row, if there is one:
\* last_accessed becomes the current time and access_count grows by one.
C4_CacheHitFrame ==
  [][ ( AnalyzeStep /\ video_analyses[last'.vid].present
        /\ last'.lookup # "failed" )
      => ( /\ last'.out = "hit" /\ last'.calls = 0
           /\ video_analyses' = video_analyses
           /\ videos' = videos /\ transcripts' = transcripts
           /\ analysis_cache' =
                [analysis_cache EXCEPT ![last'.vid] =
                   IF @.present
                     THEN [@ EXCEPT !.last = now, !.count = @ + 1]
                     ELSE @] ) ]_vars

C4_Witness ==
  /\ IsAnalyze(last) /\ last.out = "hit"
  /\ analysis_cache[last.vid].present
  /\ analysis_cache[last.vid].count = 2
  /\ analysis_cache[last.vid].last = now /\ now > 0

\* C5: a cache-index row exists for a video id if and only if a
\* rich-analysis record exists for it.
C5_CacheRowIffAnalysis ==
  \A v \in Videos : analysis_cache[v].present <=> video_analyses[v].present

\* C6: the stored cache key of every cache-index row is the key derived from
\* the video id and the video's currently stored transcript text.
C6_CacheKeyTracksTranscript ==
  \A v \in Videos :
    analysis_cache[v].present
      => /\ transcripts[v].present
         /\ analysis_cache[v].key = GenerateCacheKey(v, transcripts[v].text)

\* What the last request says of its rotator.
PoolExhaustedRequest == req.rotator # "none" /\ req.all_exhausted

\* C7: a request made while every one of the k keys of the pool answers
\* quotaExceeded tries exactly k times, once with each key, and then raises.
C7_ExactlyKAttemptsThenRaise ==
  PoolExhaustedRequest
    => /\ Len(req.tried) = api_keys
       /\ { req.tried[i] : i \in 1..Len(req.tried) } = 0..(api_keys - 1)
       /\ req.result = "raised"

\* C8: no attempt of a request goes to a key that has answered the rotator
\* quotaExceeded before, in the same request or in an earlier one.
C8_ExhaustedKeyNeverReused ==
  req.rotator # "none" => ~req.reused

\* C9: a request whose attempt fails with an error that is neither a quota
\* nor an authorization error ends with that attempt, with the index it had
\* when the attempt was sent, and raises the error to its caller.
C9_OtherErrorPropagates ==
  ( req.rotator # "none" /\ req.error = ServerError )
    => /\ req.index_at_end = req.index_before
       /\ req.result = "raised"

\* The tracks of the listing whose text, language and kind a result carries.
TrackOf(value) ==
  { i \in 1..Len(tr_config.tracks) :
      /\ tr_config.tracks[i].fetch = "text"
      /\ TextOf(tr_config.tracks[i]) = value.transcript_text
      /\ tr_config.tracks[i].language_code = value.language
      /\ tr_config.tracks[i].is_generated = value.is_auto_generated }

\* C10: for every listing of tracks, get_video_transcript does not raise and
\* returns None or a non-empty text with the language and the auto-generated
\* flag of the track the text is of; it returns None when there is no track
\* and when transcripts are disabled.
C10_ValidResultOrNone ==
  tr_result.called
    => /\ tr_result.raised = ""
       /\ \/ tr_result.value = None
          \/ /\ tr_result.value.transcript_text # <<>>
             /\ TrackOf(tr_result.value) # {}
       /\ ( tr_config.listing = "disabled" \/ tr_config.tracks = <<>> )
            => tr_result.value = None

\* The manual track stands in for a generated one whose fetch raised.
C10_Witness ==
  /\ tr_result.called /\ tr_result.value # None
  /\ ~tr_result.value.is_auto_generated
  /\ \E i \in 1..Len(tr_config.tracks) :
       tr_config.tracks[i].is_generated /\ tr_config.tracks[i].fetch = "raise"

\* The priority languages of the call, in the order they are tried.
PriorityOrder ==
  << tr_config.language, "en", "ja", "zh", "zh-cn", "zh-tw" >>

\* The dictionary that returning the track at place i of the listing gives.
ResultOfTrack(i) ==
  IF tr_config.tracks[i].fetch = "text"
    THEN [none |-> FALSE,
          transcript_text |-> TextOf(tr_config.tracks[i]),
          is_auto_generated |-> tr_config.tracks[i].is_generated,
          language |-> tr_config.tracks[i].language_code]
    ELSE None

\* The places in PriorityOrder whose generated track gives a text.
FetchablePriorityAuto ==
  { n \in 1..Len(PriorityOrder) :
      \E i \in 1..Len(tr_config.tracks) :
        /\ tr_config.tracks[i].is_generated
        /\ tr_config.tracks[i].language_code = PriorityOrder[n]
        /\ tr_config.tracks[i].fetch = "text" }

\* C11: whenever some generated track in a priority language can be fetched
\* (its fetch gives a text), get_video_transcript returns the generated
\* track of the earliest such language, whatever manual tracks exist.
C11_EarliestFetchableAutoWins ==
  ( tr_result.called /\ tr_config.listing = "ok" /\ FetchablePriorityAuto # {} )
    => \E n \in FetchablePriorityAuto :
         /\ \A m \in FetchablePriorityAuto : n <= m
         /\ tr_result.value # None
         /\ tr_result.value.is_auto_generated
         /\ tr_result.value.language = PriorityOrder[n]

\* The places of the listing with a track of a kind.
PlacesOfKind(generated) ==
  { i \in 1..Len(tr_config.tracks) : tr_config.tracks[i].is_generated = generated }

FirstPlace(places) == CHOOSE i \in places : \A j \in places : i <= j

\* No track in a priority language was fetched in stages 1 and 2.
NoPriorityMatch ==
  \A i \in 1..Len(tr_config.tracks) :
    ( \E n \in 1..Len(PriorityOrder) :
        tr_config.tracks[i].language_code = PriorityOrder[n] )
      => tr_config.tracks[i].fetch = "raise"

\* C12: when no track of a priority language was fetched and the listing has
\* a track, the track chosen is the first generated one, or the first manual
\* one when there is no generated one; its text is returned (not-found when
\* the text is empty); when the fetch of a chosen generated track raises and
\* there is a manual track, the first manual track is returned instead (its
\* text, or not-found when it is empty or its fetch raises too); in every
\* other case the result is not-found.
C12_LastResortOrder ==
  ( tr_result.called /\ tr_config.listing = "ok"
    /\ tr_config.tracks # <<>> /\ NoPriorityMatch )
    => LET autos == PlacesOfKind(TRUE)
           manuals == PlacesOfKind(FALSE)
           chosen == IF autos # {} THEN FirstPlace(autos) ELSE FirstPlace(manuals)
       IN  tr_result.value =
             IF tr_config.tracks[chosen].fetch # "raise"
               THEN ResultOfTrack(chosen)
             ELSE IF autos # {} /\ manuals # {}
               THEN ResultOfTrack(FirstPlace(manuals))
             ELSE None

\* The generated track raised and the first manual track stood in for it,
\* with no track of a priority language fetched.
C12_Witness ==
  /\ tr_result.called /\ tr_config.listing = "ok" /\ NoPriorityMatch
  /\ PlacesOfKind(TRUE) # {} /\ PlacesOfKind(FALSE) # {}
  /\ tr_result.value # None
  /\ tr_result.value = ResultOfTrack(FirstPlace(PlacesOfKind(FALSE)))
  /\ tr_result.value.language = "fr"


\* C14: a save of video data for a video id that already has a Video row
\* leaves that row as it was (the first-seen record wins).
C14_ExistingVideoRowUnchanged ==
  [][ ( /\ nops' = nops + 1
        /\ last'.op = "save_video_data"
        /\ videos[last'.vid].present )
      => videos'[last'.vid] = videos[last'.vid] ]_vars

\* C13: a run of the pipeline that follows a run in which no commit was
\* refused, with the same channel ids, keywords and upstream answers, leaves
\* the numbers of Video, Transcript and Analysis rows as that run left them.
C13_SecondRunAddsNoRows ==
  \A i \in 1..Len(runs) :
    (i > 1 /\ runs[i - 1].raised # "OperationalError") =>
      runs[i].counts = runs[i - 1].counts

C13_Witness ==
  /\ Len(runs) = 2
  /\ runs[1].raised = ""
  /\ runs[1].counts.videos > 0
  /\ runs[1].counts.transcripts > 0
  /\ runs[1].counts.analyses > 0
  /\ runs[2].raised = ""
  /\ runs[2].summary.total_videos_collected = 0

\* C15: every run of the pipeline returns the summary counts object,
\* whatever failed on the way.
C15_RunReturnsSummary ==
  \A i \in 1..Len(runs) : runs[i].raised = ""

\* C16: after a run that returned its summary, every video newly
\* discovered in that run has an Analysis row for each keyword of the run.
C16_EveryNewVideoAnalysed ==
  \A i \in 1..Len(runs) :
    (i = Len(runs) /\ runs[i].raised = "") =>
      \A v \in runs[i].unique_videos : \A k \in KeywordSet :
        \E a \in analyses : a[1] = v /\ a[2] = k

\* The scores of the call made, a missing one counting 0.
ScoresOf(analysis_list) ==
  [i \in 1..Len(analysis_list) |-> analysis_list[i].value]

OnFallbackPath ==
  /\ trend_out # None
  /\ trend_out.raised = ""
  /\ trend_out.value.kind = "fallback"

C18_TrendNeverRaises ==
  trend_out # None => trend_out.raised = ""

\* The answer is a text the analyzers' parse does not accept.
Malformed(llm) == ~llm.raises /\ ParseOf(llm.content) # "ok"

\* C19: whatever the LLM service does (raise, empty text, text that is not
\* JSON, JSON inside other text, JSON), analyze_content_with_ai and
\* analyze_transcript return a result and raise nothing; for a malformed
\* text the result is the degraded one.
C19_AnalyzersNeverRaise ==
  /\ smart_out # None =>
       /\ smart_out.raised = ""
       /\ (Malformed(llm_answer) /\ last.calls = 1) => smart_out.out = "fallback"
  /\ baseline_out # None =>
       /\ baseline_out.raised = ""
       /\ Malformed(llm_answer) => baseline_out.kind = "fallback"

\* Both analyzers were given a text without JSON and returned their
\* degraded results.
C19_Witness ==
  /\ llm_answer # None
  /\ ~llm_answer.raises /\ llm_answer.content = <<"t">>
  /\ smart_out # None /\ smart_out.raised = "" /\ smart_out.out = "fallback"
  /\ baseline_out # None /\ baseline_out.raised = ""
  /\ baseline_out.kind = "fallback"

\* C20: of the concurrent analyses of one video at most one gets an answer
\* from the LLM service to store (a call whose answer failed aside), and
\* once they have all ended the store holds one rich-analysis record and
\* (the video having a transcript) one cache-index row for it.
C20_OneLlmCallOneRecord ==
  /\ Cardinality({p \in Procs : race_local[p].result = "parsed"}) <= 1
  /\ ((\A p \in Procs : race_pc[p] = "done") /\ transcripts[1].present) =>
       video_analyses[1].present /\ analysis_cache[1].present

\* C21: after add_channel has returned for a channel id the platform has
\* details of, the channels table holds exactly one row of that id and the
\* row carries the details the platform gave this time (created on the
\* first reference, updated in place on every later one); and no
\* DataCollector call removes a channel row.
C21_ChannelCreatedThenUpdated ==
  /\ (ing.op = "add_channel" /\ ing.raised = "" /\ ing.channel_data # 0) =>
       /\ Cardinality({i \in 1..Len(tables.channels) :
            tables.channels[i].channel_id = ing.channel_id}) = 1
       /\ \A i \in 1..Len(tables.channels) :
            tables.channels[i].channel_id = ing.channel_id =>
              tables.channels[i].data = ing.channel_data
  /\ \A i \in 1..Len(ing.before.channels) :
       HasChannel(tables, ing.before.channels[i].channel_id)

\* The text holds one JSON object (from place i to place j) and nothing but
\* words and white space before and after it.
OneObjectInText(c) ==
  \E i, j \in 1..Len(c) :
    /\ i < j /\ c[i] = "{" /\ c[j] = "}"
    /\ JsonLoads(SubSeq(c, i, j))
    /\ \A k \in (1..(i - 1)) \cup ((j + 1)..Len(c)) : c[k] \in {"t", " "}

\* C22: when the LLM's text holds one valid JSON object with other text
\* before it, after it or around it, both analyzers return the parsed
\* object and not their degraded result.
C22_ObjectInTextIsParsed ==
  /\ (/\ baseline_out # None
      /\ ~llm_answer.raises
      /\ OneObjectInText(llm_answer.content)) =>
       baseline_out.kind = "parsed"
  /\ (/\ smart_out # None
      /\ last.calls = 1
      /\ ~llm_answer.raises
      /\ llm_answer.payload # 0
      /\ OneObjectInText(llm_answer.content)) =>
       smart_out.out # "fallback"

\* C23: the degraded result analyze_transcript returns when its LLM call
\* failed is never stored: no Analysis row carries it, so the video still
\* counts as not analysed for a later analyze_videos call.
C23_FallbackNotPersisted ==
  \A i \in 1..Len(tables.analyses) : tables.analyses[i].result # "fallback"

\* C24: a request through either rotator sends at most as many upstream
\* attempts as the pool has keys, whatever the keys answer, and a request
\* that ended well ended on its last attempt, which a key with quota left
\* answered.
C24_AtMostPoolSizeAttempts ==
  req.rotator # "none" =>
    /\ Len(req.tried) <= api_keys
    /\ req.result = "ok" =>
         /\ req.error = Ok
         /\ req.tried[Len(req.tried)] \notin exhausted

\* C25: when the listing holds at least one track whose fetch gives a
\* non-empty text, get_video_transcript returns a result and not
\* not-found, whatever the other tracks are and do.
C25_SomethingUsableReturned ==
  ( /\ tr_result.called
    /\ tr_config.listing = "ok"
    /\ \E i \in 1..Len(tr_config.tracks) : tr_config.tracks[i].fetch = "text" )
    => tr_result.value # None

\* last' is the record of a clean_old_cache call made in this step.
CleanStep == nops' = nops + 1 /\ last'.op = "clean_old_cache"

\* The videos whose cache-index row was last accessed more than d days ago.
OlderThan(d) ==
  {v \in Videos : analysis_cache[v].present /\ now - analysis_cache[v].last > d}

\* C26: clean_old_cache(d) deletes the cache-index rows last accessed more
\* than d days ago and the rich-analysis records of their videos, returns
\* how many index rows that was, and changes nothing else; when it fails
\* it changes nothing and returns 0.  A lookup that hits sets the row's
\* last access to the current time, so that a row hit within the last d
\* days is not among the deleted.
C26_CleanOldCacheExact ==
  [][ /\ CleanStep =>
           IF last'.out = "failed"
             THEN /\ last'.ret = 0
                  /\ UNCHANGED <<videos, transcripts, video_analyses,
                                 analysis_cache>>
             ELSE /\ last'.ret = Cardinality(OlderThan(last'.days_old))
                  /\ \A v \in Videos :
                       /\ analysis_cache'[v] =
                            IF v \in OlderThan(last'.days_old)
                              THEN NoCache ELSE analysis_cache[v]
                       /\ video_analyses'[v] =
                            IF v \in OlderThan(last'.days_old)
                              THEN NoAnalysis ELSE video_analyses[v]
                  /\ UNCHANGED <<videos, transcripts>>
      /\ ( /\ nops' = nops + 1
           /\ last'.op = "get_cached_analysis"
           /\ last'.out = "hit"
           /\ analysis_cache[last'.vid].present ) =>
             /\ analysis_cache'[last'.vid].present
             /\ analysis_cache'[last'.vid].last = now
    ]_vars

\* A clean_old_cache call evicted the one cache-index row, a day after its
\* last access, with the video's rich-analysis record, and returned 1.
C26_Witness ==
  /\ last.op = "clean_old_cache" /\ last.out = "ok"
  /\ last.ret = 1 /\ now = 1
  /\ \E v \in Videos :
       /\ transcripts[v].present
       /\ ~analysis_cache[v].present /\ ~video_analyses[v].present

\* C27: the result a cache hit returns has the same summary, key_insights,
\* sentiment, importance, topics, market_impact and action_items as the
\* result the miss call returned when it stored the analysis.
C27_StoreReloadRoundTrip ==
  (rt_out # None /\ rt_out.stored) => rt_out.hit = rt_out.miss

\* C28: after any sequence of ingestion operations every Video row's
\* owning channel id is the channel id of a Channel row, also when a
\* keyword search finds a video whose channel lookup yields nothing.
C28_VideoChannelExists ==
  \A i \in 1..Len(tables.videos) :
    HasChannel(tables, tables.videos[i].channel_id)

\* The values a column holds in more than one row.
Repeated(column) ==
  {column[i] : i \in {j \in 1..Len(column) :
                        \E k \in 1..Len(column) : k # j /\ column[k] = column[j]}}

\* C29: after any sequence of add_channel, add_keywords, collect_*,
\* save_video_data and save_analysis_result calls, also repeated with the
\* same ids, there is at most one Channel row per channel id, one Video and
\* one Transcript row per video id, one Keyword row per keyword, and one
\* rich-analysis record and one cache-index row per video id.
C29_OneRowPerKey ==
  /\ Repeated(Column(tables.channels, "channel_id")) = {}
  /\ Repeated(Column(tables.videos, "video_id")) = {}
  /\ Repeated(tables.transcripts) = {}
  /\ Repeated(tables.keywords) = {}
  /\ Repeated(tables.video_analyses) = {}
  /\ Repeated(tables.analysis_cache) = {}

\* With rows stored, a call that named a new keyword twice was refused as a
\* whole.
C29_Witness ==
  /\ ing.op = "add_keywords"
  /\ ing.raised = "IntegrityError"
  /\ tables.keywords # <<>>
  /\ tables.videos # <<>>

\* The Analysis rows of a video, by their place in the table.
RowsOfVideo(t, video_id) ==
  {i \in 1..Len(t.analyses) : t.analyses[i].video_id = video_id}

\* The places of a list that hold a given value.
Places(list, value) == {i \in 1..Len(list) : list[i] = value}

\* The videos of the call that had an Analysis row before it.
AnalysedBefore == {v \in PipeVideos : RowsOfVideo(ing.before, v) # {}}

====
